---- MODULE Spec2Model ----
(***************************************************************************)
(* Model of the yield-tokenizer instruction processor                      *)
(* (program/src/processor.rs).  One tokenizer record, for the pair         *)
(* (underlying_mint, Maturity), lives on a ledger of accounts.  Every      *)
(* instruction is one action: the handler is a pure operator from the      *)
(* ledger and the supplied account list to a result and a new ledger, and  *)
(* the platform keeps the new ledger only when the result is Ok.           *)
(***************************************************************************)
EXTENDS Integers, Sequences, FiniteSets, TLC

\* ------------------------------------------------------------------ bounds
MaxTime == 4
Maturity == 2
MaxAmount == 2
InitialUnderlying == 2
MaxSupply == 2
RentMinimum == 1

\* ------------------------------------------------------- program constants
DECIMALS == 6
MINT_SIZE == 82
STATE_SIZE == 177

\* ---------------------------------------------------------------- addresses
ProgramId == "program"
TokenProgram == "token_program"
SystemProgram == "system_program"
ATokenProgram == "atoken_program"
NoKey == "nokey"

Keys ==
  { "tokenizer", "vault", "underlying_mint", "principal_mint", "yield_mint",
    "authority", "user", "user_underlying", "user_principal", "user_yield",
    "other",
    TokenProgram, SystemProgram, ATokenProgram }

\* get_tokenizer_address: the record's address and bump for (mint, expiry).
get_tokenizer_address(mint, expiry_date) ==
  IF mint = "underlying_mint" /\ expiry_date = Maturity
  THEN [key |-> "tokenizer", bump |-> 255]
  ELSE [key |-> NoKey, bump |-> 254]

get_principal_mint_address(tokenizer) ==
  IF tokenizer = "tokenizer" THEN "principal_mint" ELSE NoKey

get_yield_mint_address(tokenizer) ==
  IF tokenizer = "tokenizer" THEN "yield_mint" ELSE NoKey

\* The ledger's associated-account convention for (owner, mint).
get_associated_token_address(owner, mint) ==
  CASE owner = "tokenizer" /\ mint = "underlying_mint" -> "vault"
    [] owner = "user" /\ mint = "underlying_mint" -> "user_underlying"
    [] owner = "user" /\ mint = "principal_mint" -> "user_principal"
    [] owner = "user" /\ mint = "yield_mint" -> "user_yield"
    [] OTHER -> NoKey

\* The address a seed replay [b"tokenizer", mint, expiry, bump] signs for.
pda_signer(mint, expiry_date, bump) ==
  IF bump = get_tokenizer_address(mint, expiry_date).bump
  THEN get_tokenizer_address(mint, expiry_date).key
  ELSE NoKey

\* spl_token::ui_amount_to_amount(amount as f64, 6)
ui_amount_to_amount_unscaled(ui) == ui

ui_amount_to_amount(ui) == ui * (10 ^ DECIMALS)

\* ------------------------------------------------------------------- state
VARIABLES
  accts,   \* the ledger: key -> [owner, kind, amount, lamports]
  data,    \* the TokenizerState serialized in the record account
  now,     \* Clock::get().unix_timestamp
  last     \* the last instruction processed and its result

vars == <<accts, data, now, last>>

\* kind: "empty" (no data), "state" (STATE_SIZE bytes holding the record),
\* "alloc" (MINT_SIZE bytes, not yet a mint), "mint", "token", "program".
EmptyAccount ==
  [owner |-> SystemProgram, kind |-> "empty", amount |-> 0, lamports |-> 0]

Wallet ==
  [owner |-> SystemProgram, kind |-> "empty", amount |-> 0, lamports |-> RentMinimum]

Executable ==
  [owner |-> "loader", kind |-> "program", amount |-> 0, lamports |-> RentMinimum]

MintAccount(supply) ==
  [owner |-> TokenProgram, kind |-> "mint", amount |-> supply, lamports |-> RentMinimum]

TokenAccount(balance) ==
  [owner |-> TokenProgram, kind |-> "token", amount |-> balance, lamports |-> RentMinimum]

ZeroState ==
  [bump |-> 0, authority |-> NoKey, principal_token_mint |-> NoKey,
   yield_token_mint |-> NoKey, underlying_mint |-> NoKey, underlying_vault |-> NoKey,
   expiry_date |-> 0, fixed_apy |-> 0]

data_len(a) ==
  CASE a.kind = "state" -> STATE_SIZE
    [] a.kind \in {"alloc", "mint"} -> MINT_SIZE
    [] OTHER -> 0

\* An AccountInfo as an instruction receives it; owner and data are read from
\* the ledger under its key.
AccountInfo(k, s) == [key |-> k, is_signer |-> s]

R(res, L) == [res |-> res, L |-> L]

Put(L, k, a) == [L EXCEPT !.acc[k] = a]

Ledger == [acc |-> accts, st |-> data, now |-> now]

NoLast == [op |-> "none", res |-> "none", amount |-> 0]

Init ==
  /\ \E funded \in BOOLEAN :
       accts = [k \in Keys |->
         CASE k \in {TokenProgram, SystemProgram, ATokenProgram} -> Executable
           [] k \in {"authority", "user", "other"} -> Wallet
           [] k = "underlying_mint" -> MintAccount(ui_amount_to_amount(InitialUnderlying))
           [] k = "user_underlying" ->
                IF funded THEN TokenAccount(ui_amount_to_amount(InitialUnderlying))
                ELSE EmptyAccount
           [] OTHER -> EmptyAccount]
  /\ data = ZeroState
  /\ now = 0
  /\ last = NoLast

\* ------------------------------------------------- ledger services (interface)
\* The mint a token account is for, and the wallet that owns it.
TokenMintOf(k) ==
  CASE k \in {"vault", "user_underlying"} -> "underlying_mint"
    [] k = "user_principal" -> "principal_mint"
    [] k = "user_yield" -> "yield_mint"
    [] OTHER -> NoKey

TokenOwnerOf(k) ==
  CASE k = "vault" -> "tokenizer"
    [] k \in {"user_underlying", "user_principal", "user_yield"} -> "user"
    [] OTHER -> NoKey

InUse(a) == a.lamports > 0 \/ a.kind # "empty" \/ a.owner # SystemProgram

\* Base account service: create_account(payer, new_address, balance, size, owner).
\* payer is an AccountInfo; new_signed says whether the new address signed
\* (by a seed replay); kind is the data the size allocates; callable says whether
\* the service's own account is among those handed over with the call.
system_create_account(L, payer, new_key, new_signed, lamports, kind, owner, callable) ==
  IF ~callable THEN R("MissingAccount", L)
  ELSE IF ~payer.is_signer \/ ~new_signed THEN R("MissingRequiredSignature", L)
  ELSE IF InUse(L.acc[new_key]) THEN R("AccountAlreadyInUse", L)
  ELSE R("Ok", Put(L, new_key,
         [owner |-> owner, kind |-> kind, amount |-> 0, lamports |-> lamports]))

\* Base account service: transfer_balance(from, to, lamports).
system_transfer(L, from_key, from_signed, lamports) ==
  IF ~from_signed THEN R("MissingRequiredSignature", L)
  ELSE IF L.acc[from_key].lamports < lamports THEN R("InsufficientLamports", L)
  ELSE R("Ok", [L EXCEPT !.acc[from_key].lamports = @ - lamports])

\* Canonical-account service: create the sub-account of (wallet, mint).  The
\* instruction names its accounts by derivation; the call fails when one of them
\* is not among the AccountInfos handed over (infos).
create_associated_token_account(L, payer, wallet, mint, token_program_id, infos) ==
  LET ata == IF token_program_id = TokenProgram
             THEN get_associated_token_address(wallet, mint)
             ELSE NoKey
      needed == {payer.key, ata, wallet, mint, SystemProgram, token_program_id}
  IN  IF ~(needed \subseteq {i.key : i \in infos}) THEN R("MissingAccount", L)
      ELSE IF ~payer.is_signer THEN R("MissingRequiredSignature", L)
      ELSE IF L.acc[ata].owner # SystemProgram \/ L.acc[ata].kind # "empty"
           THEN R("IllegalOwner", L)
      ELSE IF L.acc[mint].kind # "mint" THEN R("InvalidMint", L)
      ELSE R("Ok", Put(L, ata, TokenAccount(0)))

\* Ledger token service: create_mint(address, authority, decimals).
initialize_mint2(L, mint_key) ==
  IF L.acc[mint_key].owner # TokenProgram \/ L.acc[mint_key].kind # "alloc"
  THEN R("InvalidAccountData", L)
  ELSE R("Ok", [L EXCEPT !.acc[mint_key].kind = "mint"])

\* Ledger token service: mint_to(mint, destination, authority_proof, amount).
\* signer is the address the seed replay signs for.
mint_to(L, mint_key, dest_key, authority_key, signer, amount) ==
  IF L.acc[mint_key].kind # "mint" \/ L.acc[dest_key].kind # "token"
  THEN R("InvalidAccountData", L)
  ELSE IF TokenMintOf(dest_key) # mint_key THEN R("MintMismatch", L)
  ELSE IF authority_key # "tokenizer" THEN R("OwnerMismatch", L)
  ELSE IF signer # authority_key THEN R("MissingRequiredSignature", L)
  ELSE R("Ok", [L EXCEPT !.acc[mint_key].amount = @ + amount,
                         !.acc[dest_key].amount = @ + amount])

\* Ledger token service: transfer(source, destination, owner_proof, amount);
\* an overdraft is rejected.
token_transfer(L, src_key, dst_key, owner_key, owner_signed, amount) ==
  IF L.acc[src_key].kind # "token" \/ L.acc[dst_key].kind # "token"
  THEN R("InvalidAccountData", L)
  ELSE IF L.acc[src_key].amount < amount THEN R("TokenInsufficientFunds", L)
  ELSE IF TokenMintOf(src_key) # TokenMintOf(dst_key) THEN R("MintMismatch", L)
  ELSE IF TokenOwnerOf(src_key) # owner_key THEN R("OwnerMismatch", L)
  ELSE IF ~owner_signed THEN R("MissingRequiredSignature", L)
  ELSE IF src_key = dst_key THEN R("Ok", L)
  ELSE R("Ok", [L EXCEPT !.acc[src_key].amount = @ - amount,
                         !.acc[dst_key].amount = @ + amount])

\* Ledger token service: burn(source, mint, owner_proof, amount).
token_burn(L, src_key, mint_key, owner_key, owner_signed, amount) ==
  IF L.acc[src_key].kind # "token" \/ L.acc[mint_key].kind # "mint"
  THEN R("InvalidAccountData", L)
  ELSE IF L.acc[src_key].amount < amount THEN R("TokenInsufficientFunds", L)
  ELSE IF TokenMintOf(src_key) # mint_key THEN R("MintMismatch", L)
  ELSE IF TokenOwnerOf(src_key) # owner_key THEN R("OwnerMismatch", L)
  ELSE IF ~owner_signed THEN R("MissingRequiredSignature", L)
  ELSE R("Ok", [L EXCEPT !.acc[src_key].amount = @ - amount,
                         !.acc[mint_key].amount = @ - amount])

\* Ledger token service: close_account(account, destination, authority_proof).
\* Only an empty account (a mint with no supply) closes; its balance goes to the
\* destination and the account is gone.
close_account(L, key, authority_key, signer) ==
  IF L.acc[key].owner # TokenProgram \/ L.acc[key].kind \notin {"mint", "token"}
  THEN R("InvalidAccountData", L)
  ELSE IF L.acc[key].amount # 0 THEN R("NonEmptyAccount", L)
  ELSE IF authority_key # "tokenizer" THEN R("OwnerMismatch", L)
  ELSE IF signer # authority_key THEN R("MissingRequiredSignature", L)
  ELSE R("Ok", Put(L, key, EmptyAccount))

\* ---------------------------------------------------------------- handlers
\* The tokenization gate closed already at the maturity instant.
expiry_date_elapsed_at_maturity(st, timestamp) == st.expiry_date <= timestamp

\* The time gate of tokenization: the record's expiry date lies before the clock.
expiry_date_elapsed(st, timestamp) == st.expiry_date < timestamp

\* The post-maturity gate open already at the maturity instant.
expiry_date_not_elapsed_before_maturity(st, timestamp) == st.expiry_date > timestamp

\* The time gate of mature redemption and of termination: the record's expiry
\* date has not yet been passed by the clock.
expiry_date_not_elapsed(st, timestamp) == st.expiry_date >= timestamp

\* Expiry::to_expiry_date(timestamp): the maturity descriptor names the date.
to_expiry_date(expiry, timestamp) == expiry

\* state.rs: the declared size of the persisted record, and the record's fields
\* in declaration order, by type.
LYSERGIC_TOKENIZER_STATE_SIZE == 180

LysergicTokenizerState ==
  << [name |-> "authority", type |-> "Pubkey"],
     [name |-> "principal_token_mint", type |-> "Pubkey"],
     [name |-> "yield_token_mint", type |-> "Pubkey"],
     [name |-> "underlying_mint", type |-> "Pubkey"],
     [name |-> "underlying_vault", type |-> "Pubkey"],
     [name |-> "expiry_date", type |-> "i64"],
     [name |-> "fixed_apy", type |-> "u64"] >>

\* The number of bytes the derived encoding gives a field of the type.
borsh_size(type) ==
  CASE type = "Pubkey" -> 32
    [] type \in {"i64", "u64"} -> 8
    [] type = "u8" -> 1

\* BorshSerialize of a struct: its fields one after the other.
encoded_size(fields) ==
  LET size[i \in 0..Len(fields)] ==
        IF i = 0 THEN 0 ELSE size[i - 1] + borsh_size(fields[i].type)
  IN  size[Len(fields)]

\* BorshDeserialize::try_from_slice of a slice of len bytes: the fields are read
\* in order, and the read fails when the slice ends early or bytes are left.
try_from_slice(len, fields) == len = encoded_size(fields)

\* TokenizerState::try_from_slice on the whole data of an account.
decodes(a) == a.kind = "state"

minimum_balance(size) == RentMinimum

Max(a, b) == IF a > b THEN a ELSE b

required_lamports(size, held) == Max(Max(minimum_balance(size), 1) - held, 0)

\* Initialization that creates the record without looking at its owner first.
process_initialize_lysergic_tokenizer_unguarded(L, accounts, underlying_mint, principal_token_mint, yield_token_mint, expiry, fixed_apy) ==
  IF Len(accounts) < 7 THEN R("NotEnoughAccountKeys", L) ELSE
  LET lysergic_tokenizer_account == accounts[1]
      authority == accounts[2]
      underlying_vault_account == accounts[3]
      underlying_mint_account == accounts[4]
      token_program == accounts[5]
      system_program == accounts[6]
      atoken_program == accounts[7]
      expiry_date == to_expiry_date(expiry, L.now)
      derived == get_tokenizer_address(underlying_mint_account.key, expiry_date)
      tokenizer_key == derived.key
      bump == derived.bump
      principal_mint == get_principal_mint_address(tokenizer_key)
      yield_mint == get_yield_mint_address(tokenizer_key)
      signer == pda_signer(underlying_mint_account.key, expiry_date, bump)
  IN  IF lysergic_tokenizer_account.key # tokenizer_key
        THEN R("IncorrectTokenizerAddress", L)
      ELSE IF ~authority.is_signer THEN R("MissingRequiredSignature", L)
      ELSE IF underlying_vault_account.key
                # get_associated_token_address(lysergic_tokenizer_account.key,
                                               underlying_mint)
        THEN R("IncorrectVaultAddress", L)
      ELSE IF underlying_mint # underlying_mint_account.key
        THEN R("IncorrectUnderlyingMintAddress", L)
      ELSE IF principal_token_mint # principal_mint
        THEN R("IncorrectPrincipalMintAddress", L)
      ELSE IF yield_token_mint # yield_mint
        THEN R("IncorrectYieldMintAddress", L)
      ELSE IF token_program.key # TokenProgram THEN R("IncorrectProgramId", L)
      ELSE IF atoken_program.key # ATokenProgram THEN R("IncorrectProgramId", L)
      ELSE IF system_program.key # SystemProgram THEN R("IncorrectProgramId", L)
      ELSE IF TRUE
        THEN
          LET r1 == system_create_account(L, authority, tokenizer_key,
                      signer = tokenizer_key,
                      required_lamports(STATE_SIZE,
                        L.acc[lysergic_tokenizer_account.key].lamports),
                      "state", ProgramId, system_program.key = SystemProgram)
              r2 == create_associated_token_account(r1.L, authority,
                      lysergic_tokenizer_account.key, underlying_mint,
                      token_program.key,
                      {authority, underlying_vault_account,
                       lysergic_tokenizer_account, underlying_mint_account,
                       system_program, token_program, atoken_program})
          IN  IF r1.res # "Ok" THEN R(r1.res, L)
              ELSE IF r2.res # "Ok" THEN R(r2.res, L)
              ELSE R("Ok", [r2.L EXCEPT !.st =
                     [bump |-> bump,
                      authority |-> authority.key,
                      principal_token_mint |-> principal_token_mint,
                      yield_token_mint |-> yield_token_mint,
                      underlying_mint |-> underlying_mint,
                      underlying_vault |-> underlying_vault_account.key,
                      expiry_date |-> expiry_date,
                      fixed_apy |-> fixed_apy]])
        ELSE R("TokenizerAlreadyInitialized", L)

\* Initialization that records the mint addresses the caller names.
process_initialize_lysergic_tokenizer_mints_unchecked(L, accounts, underlying_mint, principal_token_mint, yield_token_mint, expiry, fixed_apy) ==
  IF Len(accounts) < 7 THEN R("NotEnoughAccountKeys", L) ELSE
  LET lysergic_tokenizer_account == accounts[1]
      authority == accounts[2]
      underlying_vault_account == accounts[3]
      underlying_mint_account == accounts[4]
      token_program == accounts[5]
      system_program == accounts[6]
      atoken_program == accounts[7]
      expiry_date == to_expiry_date(expiry, L.now)
      derived == get_tokenizer_address(underlying_mint_account.key, expiry_date)
      tokenizer_key == derived.key
      bump == derived.bump
      principal_mint == get_principal_mint_address(tokenizer_key)
      yield_mint == get_yield_mint_address(tokenizer_key)
      signer == pda_signer(underlying_mint_account.key, expiry_date, bump)
  IN  IF lysergic_tokenizer_account.key # tokenizer_key
        THEN R("IncorrectTokenizerAddress", L)
      ELSE IF ~authority.is_signer THEN R("MissingRequiredSignature", L)
      ELSE IF underlying_vault_account.key
                # get_associated_token_address(lysergic_tokenizer_account.key,
                                               underlying_mint)
        THEN R("IncorrectVaultAddress", L)
      ELSE IF underlying_mint # underlying_mint_account.key
        THEN R("IncorrectUnderlyingMintAddress", L)
      ELSE IF token_program.key # TokenProgram THEN R("IncorrectProgramId", L)
      ELSE IF atoken_program.key # ATokenProgram THEN R("IncorrectProgramId", L)
      ELSE IF system_program.key # SystemProgram THEN R("IncorrectProgramId", L)
      ELSE IF L.acc[lysergic_tokenizer_account.key].owner # ProgramId
        THEN
          LET r1 == system_create_account(L, authority, tokenizer_key,
                      signer = tokenizer_key,
                      required_lamports(STATE_SIZE,
                        L.acc[lysergic_tokenizer_account.key].lamports),
                      "state", ProgramId, system_program.key = SystemProgram)
              r2 == create_associated_token_account(r1.L, authority,
                      lysergic_tokenizer_account.key, underlying_mint,
                      token_program.key,
                      {authority, underlying_vault_account,
                       lysergic_tokenizer_account, underlying_mint_account,
                       system_program, token_program, atoken_program})
          IN  IF r1.res # "Ok" THEN R(r1.res, L)
              ELSE IF r2.res # "Ok" THEN R(r2.res, L)
              ELSE R("Ok", [r2.L EXCEPT !.st =
                     [bump |-> bump,
                      authority |-> authority.key,
                      principal_token_mint |-> principal_token_mint,
                      yield_token_mint |-> yield_token_mint,
                      underlying_mint |-> underlying_mint,
                      underlying_vault |-> underlying_vault_account.key,
                      expiry_date |-> expiry_date,
                      fixed_apy |-> fixed_apy]])
        ELSE R("TokenizerAlreadyInitialized", L)

process_initialize_lysergic_tokenizer(L, accounts, underlying_mint, principal_token_mint, yield_token_mint, expiry, fixed_apy) ==
  IF Len(accounts) < 7 THEN R("NotEnoughAccountKeys", L) ELSE
  LET lysergic_tokenizer_account == accounts[1]
      authority == accounts[2]
      underlying_vault_account == accounts[3]
      underlying_mint_account == accounts[4]
      token_program == accounts[5]
      system_program == accounts[6]
      atoken_program == accounts[7]
      expiry_date == to_expiry_date(expiry, L.now)
      derived == get_tokenizer_address(underlying_mint_account.key, expiry_date)
      tokenizer_key == derived.key
      bump == derived.bump
      principal_mint == get_principal_mint_address(tokenizer_key)
      yield_mint == get_yield_mint_address(tokenizer_key)
      signer == pda_signer(underlying_mint_account.key, expiry_date, bump)
  IN  IF lysergic_tokenizer_account.key # tokenizer_key
        THEN R("IncorrectTokenizerAddress", L)
      ELSE IF ~authority.is_signer THEN R("MissingRequiredSignature", L)
      ELSE IF underlying_vault_account.key
                # get_associated_token_address(lysergic_tokenizer_account.key,
                                               underlying_mint)
        THEN R("IncorrectVaultAddress", L)
      ELSE IF underlying_mint # underlying_mint_account.key
        THEN R("IncorrectUnderlyingMintAddress", L)
      ELSE IF principal_token_mint # principal_mint
        THEN R("IncorrectPrincipalMintAddress", L)
      ELSE IF yield_token_mint # yield_mint
        THEN R("IncorrectYieldMintAddress", L)
      ELSE IF token_program.key # TokenProgram THEN R("IncorrectProgramId", L)
      ELSE IF atoken_program.key # ATokenProgram THEN R("IncorrectProgramId", L)
      ELSE IF system_program.key # SystemProgram THEN R("IncorrectProgramId", L)
      ELSE IF L.acc[lysergic_tokenizer_account.key].owner # ProgramId
        THEN
          LET r1 == system_create_account(L, authority, tokenizer_key,
                      signer = tokenizer_key,
                      required_lamports(STATE_SIZE,
                        L.acc[lysergic_tokenizer_account.key].lamports),
                      "state", ProgramId, system_program.key = SystemProgram)
              r2 == create_associated_token_account(r1.L, authority,
                      lysergic_tokenizer_account.key, underlying_mint,
                      token_program.key,
                      {authority, underlying_vault_account,
                       lysergic_tokenizer_account, underlying_mint_account,
                       system_program, token_program, atoken_program})
          IN  IF r1.res # "Ok" THEN R(r1.res, L)
              ELSE IF r2.res # "Ok" THEN R(r2.res, L)
              ELSE R("Ok", [r2.L EXCEPT !.st =
                     [bump |-> bump,
                      authority |-> authority.key,
                      principal_token_mint |-> principal_token_mint,
                      yield_token_mint |-> yield_token_mint,
                      underlying_mint |-> underlying_mint,
                      underlying_vault |-> underlying_vault_account.key,
                      expiry_date |-> expiry_date,
                      fixed_apy |-> fixed_apy]])
        ELSE R("TokenizerAlreadyInitialized", L)

\* Creation of the mints that tests their addresses only against a stored record.
process_initialize_mints_underived(L, accounts, underlying_mint, expiry) ==
  IF Len(accounts) < 7 THEN R("NotEnoughAccountKeys", L) ELSE
  LET lysergic_tokenizer_account == accounts[1]
      authority == accounts[2]
      underlying_mint_account == accounts[3]
      principal_token_mint_account == accounts[4]
      yield_token_mint_account == accounts[5]
      token_program == accounts[6]
      system_program == accounts[7]
      expiry_date == to_expiry_date(expiry, L.now)
      derived == get_tokenizer_address(underlying_mint, expiry_date)
      tokenizer_key == derived.key
      principal_mint == get_principal_mint_address(tokenizer_key)
      yield_mint == get_yield_mint_address(tokenizer_key)
      st == L.st
      owned == L.acc[lysergic_tokenizer_account.key].owner = ProgramId
      create_p == system_create_account(L, authority,
                    principal_token_mint_account.key,
                    get_principal_mint_address(lysergic_tokenizer_account.key)
                      = principal_token_mint_account.key,
                    required_lamports(MINT_SIZE,
                      L.acc[principal_token_mint_account.key].lamports),
                    "alloc", TokenProgram, system_program.key = SystemProgram)
      create_y == system_create_account(create_p.L, authority,
                    yield_token_mint_account.key,
                    get_yield_mint_address(lysergic_tokenizer_account.key)
                      = yield_token_mint_account.key,
                    required_lamports(MINT_SIZE,
                      L.acc[yield_token_mint_account.key].lamports),
                    "alloc", TokenProgram, system_program.key = SystemProgram)
      init_p == initialize_mint2(create_y.L, principal_token_mint_account.key)
      init_y == initialize_mint2(init_p.L, yield_token_mint_account.key)
  IN  IF lysergic_tokenizer_account.key # tokenizer_key
        THEN R("IncorrectTokenizerAddress", L)
      ELSE IF ~authority.is_signer THEN R("MissingRequiredSignature", L)
      ELSE IF token_program.key # TokenProgram THEN R("IncorrectProgramId", L)
      ELSE IF owned /\ ~decodes(L.acc[lysergic_tokenizer_account.key])
        THEN R("InvalidAccountData", L)
      ELSE IF owned /\ st.principal_token_mint # principal_token_mint_account.key
        THEN R("IncorrectPrincipalMintAddress", L)
      ELSE IF owned /\ st.yield_token_mint # yield_token_mint_account.key
        THEN R("IncorrectYieldMintAddress", L)
      ELSE IF owned /\ st.underlying_mint # underlying_mint_account.key
        THEN R("IncorrectUnderlyingMintAddress", L)
      ELSE IF owned /\ st.expiry_date # expiry_date
        THEN R("InvalidExpiryDate", L)
      ELSE IF owned /\ st.underlying_vault
                # get_associated_token_address(lysergic_tokenizer_account.key,
                                               st.underlying_mint)
        THEN R("IncorrectVaultAddress", L)
      ELSE IF create_p.res # "Ok" THEN R(create_p.res, L)
      ELSE IF create_y.res # "Ok" THEN R(create_y.res, L)
      ELSE IF init_p.res # "Ok" THEN R(init_p.res, L)
      ELSE IF init_y.res # "Ok" THEN R(init_y.res, L)
      ELSE R("Ok", init_y.L)

process_initialize_mints(L, accounts, underlying_mint, expiry) ==
  IF Len(accounts) < 7 THEN R("NotEnoughAccountKeys", L) ELSE
  LET lysergic_tokenizer_account == accounts[1]
      authority == accounts[2]
      underlying_mint_account == accounts[3]
      principal_token_mint_account == accounts[4]
      yield_token_mint_account == accounts[5]
      token_program == accounts[6]
      system_program == accounts[7]
      expiry_date == to_expiry_date(expiry, L.now)
      derived == get_tokenizer_address(underlying_mint, expiry_date)
      tokenizer_key == derived.key
      principal_mint == get_principal_mint_address(tokenizer_key)
      yield_mint == get_yield_mint_address(tokenizer_key)
      st == L.st
      owned == L.acc[lysergic_tokenizer_account.key].owner = ProgramId
      create_p == system_create_account(L, authority,
                    principal_token_mint_account.key,
                    get_principal_mint_address(lysergic_tokenizer_account.key)
                      = principal_token_mint_account.key,
                    required_lamports(MINT_SIZE,
                      L.acc[principal_token_mint_account.key].lamports),
                    "alloc", TokenProgram, system_program.key = SystemProgram)
      create_y == system_create_account(create_p.L, authority,
                    yield_token_mint_account.key,
                    get_yield_mint_address(lysergic_tokenizer_account.key)
                      = yield_token_mint_account.key,
                    required_lamports(MINT_SIZE,
                      L.acc[yield_token_mint_account.key].lamports),
                    "alloc", TokenProgram, system_program.key = SystemProgram)
      init_p == initialize_mint2(create_y.L, principal_token_mint_account.key)
      init_y == initialize_mint2(init_p.L, yield_token_mint_account.key)
  IN  IF lysergic_tokenizer_account.key # tokenizer_key
        THEN R("IncorrectTokenizerAddress", L)
      ELSE IF ~authority.is_signer THEN R("MissingRequiredSignature", L)
      ELSE IF token_program.key # TokenProgram THEN R("IncorrectProgramId", L)
      ELSE IF owned /\ ~decodes(L.acc[lysergic_tokenizer_account.key])
        THEN R("InvalidAccountData", L)
      ELSE IF owned /\ st.principal_token_mint # principal_token_mint_account.key
        THEN R("IncorrectPrincipalMintAddress", L)
      ELSE IF owned /\ st.yield_token_mint # yield_token_mint_account.key
        THEN R("IncorrectYieldMintAddress", L)
      ELSE IF owned /\ st.underlying_mint # underlying_mint_account.key
        THEN R("IncorrectUnderlyingMintAddress", L)
      ELSE IF owned /\ st.expiry_date # expiry_date
        THEN R("InvalidExpiryDate", L)
      ELSE IF owned /\ st.underlying_vault
                # get_associated_token_address(lysergic_tokenizer_account.key,
                                               st.underlying_mint)
        THEN R("IncorrectVaultAddress", L)
      ELSE IF ~owned /\ principal_token_mint_account.key # principal_mint
        THEN R("IncorrectPrincipalMintAddress", L)
      ELSE IF ~owned /\ yield_token_mint_account.key # yield_mint
        THEN R("IncorrectYieldMintAddress", L)
      ELSE IF create_p.res # "Ok" THEN R(create_p.res, L)
      ELSE IF create_y.res # "Ok" THEN R(create_y.res, L)
      ELSE IF init_p.res # "Ok" THEN R(init_p.res, L)
      ELSE IF init_y.res # "Ok" THEN R(init_y.res, L)
      ELSE R("Ok", init_y.L)

\* The combined initialization that drops the result of creating the mints.
process_initialize_tokenizer_and_mints_unchecked(L, accounts, underlying_mint, principal_token_mint, yield_token_mint, expiry, fixed_apy) ==
  IF Len(accounts) < 9 THEN R("NotEnoughAccountKeys", L) ELSE
  LET lysergic_tokenizer_account == accounts[1]
      authority == accounts[2]
      underlying_vault_account == accounts[3]
      underlying_mint_account == accounts[4]
      principal_token_mint_account == accounts[5]
      yield_token_mint_account == accounts[6]
      token_program == accounts[7]
      system_program == accounts[8]
      atoken_program == accounts[9]
      initialize_tokenizer_accounts ==
        << lysergic_tokenizer_account, authority, underlying_vault_account,
           underlying_mint_account, token_program, system_program, atoken_program >>
      initialize_mint_accounts ==
        << lysergic_tokenizer_account, authority, underlying_mint_account,
           principal_token_mint_account, yield_token_mint_account, token_program,
           system_program >>
      r1 == process_initialize_lysergic_tokenizer(L, initialize_tokenizer_accounts,
              underlying_mint, principal_token_mint, yield_token_mint, expiry,
              fixed_apy)
      r2 == process_initialize_mints(r1.L, initialize_mint_accounts,
              underlying_mint, expiry)
  IN  IF r1.res # "Ok" THEN R(r1.res, L)
      ELSE IF r2.res # "Ok" THEN R("Ok", r1.L)
      ELSE R("Ok", r2.L)

process_initialize_tokenizer_and_mints(L, accounts, underlying_mint, principal_token_mint, yield_token_mint, expiry, fixed_apy) ==
  IF Len(accounts) < 9 THEN R("NotEnoughAccountKeys", L) ELSE
  LET lysergic_tokenizer_account == accounts[1]
      authority == accounts[2]
      underlying_vault_account == accounts[3]
      underlying_mint_account == accounts[4]
      principal_token_mint_account == accounts[5]
      yield_token_mint_account == accounts[6]
      token_program == accounts[7]
      system_program == accounts[8]
      atoken_program == accounts[9]
      initialize_tokenizer_accounts ==
        << lysergic_tokenizer_account, authority, underlying_vault_account,
           underlying_mint_account, token_program, system_program, atoken_program >>
      initialize_mint_accounts ==
        << lysergic_tokenizer_account, authority, underlying_mint_account,
           principal_token_mint_account, yield_token_mint_account, token_program,
           system_program >>
      r1 == process_initialize_lysergic_tokenizer(L, initialize_tokenizer_accounts,
              underlying_mint, principal_token_mint, yield_token_mint, expiry,
              fixed_apy)
      r2 == process_initialize_mints(r1.L, initialize_mint_accounts,
              underlying_mint, expiry)
  IN  IF r1.res # "Ok" THEN R(r1.res, L)
      ELSE IF r2.res # "Ok" THEN R(r2.res, L)
      ELSE R("Ok", r2.L)

\* A deposit that moves the amount as given, not converted to base units.
process_deposit_underlying_unconverted(L, accounts, ui) ==
  IF Len(accounts) < 5 THEN R("NotEnoughAccountKeys", L) ELSE
  LET lysergic_tokenizer_account == accounts[1]
      underlying_vault_account == accounts[2]
      user_account == accounts[3]
      user_underlying_token_account == accounts[4]
      token_program == accounts[5]
      amount == ui
      st == L.st
      transfer == token_transfer(L, user_underlying_token_account.key,
                    underlying_vault_account.key, user_account.key,
                    user_account.is_signer, amount)
  IN  \* the record is sliced and decoded before the ownership check
      IF data_len(L.acc[lysergic_tokenizer_account.key]) < STATE_SIZE
        THEN R("ProgramFailedToComplete", L)
      ELSE IF L.acc[lysergic_tokenizer_account.key].owner # ProgramId
        THEN R("TokenizerNotInitialized", L)
      ELSE IF L.acc[underlying_vault_account.key].owner # TokenProgram
        THEN R("IncorrectVaultAddress", L)
      ELSE IF underlying_vault_account.key # st.underlying_vault
        THEN R("IncorrectVaultAddress", L)
      ELSE IF ~user_account.is_signer THEN R("MissingRequiredSignature", L)
      ELSE IF user_underlying_token_account.key
                # get_associated_token_address(user_account.key, st.underlying_mint)
        THEN R("InvalidUserAccount", L)
      ELSE IF token_program.key # TokenProgram THEN R("IncorrectProgramId", L)
      ELSE IF transfer.res # "Ok" THEN R(transfer.res, L)
      ELSE R("Ok", transfer.L)

process_deposit_underlying(L, accounts, ui) ==
  IF Len(accounts) < 5 THEN R("NotEnoughAccountKeys", L) ELSE
  LET lysergic_tokenizer_account == accounts[1]
      underlying_vault_account == accounts[2]
      user_account == accounts[3]
      user_underlying_token_account == accounts[4]
      token_program == accounts[5]
      amount == ui_amount_to_amount(ui)
      st == L.st
      transfer == token_transfer(L, user_underlying_token_account.key,
                    underlying_vault_account.key, user_account.key,
                    user_account.is_signer, amount)
  IN  \* the record is sliced and decoded before the ownership check
      IF data_len(L.acc[lysergic_tokenizer_account.key]) < STATE_SIZE
        THEN R("ProgramFailedToComplete", L)
      ELSE IF L.acc[lysergic_tokenizer_account.key].owner # ProgramId
        THEN R("TokenizerNotInitialized", L)
      ELSE IF L.acc[underlying_vault_account.key].owner # TokenProgram
        THEN R("IncorrectVaultAddress", L)
      ELSE IF underlying_vault_account.key # st.underlying_vault
        THEN R("IncorrectVaultAddress", L)
      ELSE IF ~user_account.is_signer THEN R("MissingRequiredSignature", L)
      ELSE IF user_underlying_token_account.key
                # get_associated_token_address(user_account.key, st.underlying_mint)
        THEN R("InvalidUserAccount", L)
      ELSE IF token_program.key # TokenProgram THEN R("IncorrectProgramId", L)
      ELSE IF transfer.res # "Ok" THEN R(transfer.res, L)
      ELSE R("Ok", transfer.L)

process_tokenize_principal(L, accounts, ui) ==
  IF Len(accounts) < 5 THEN R("NotEnoughAccountKeys", L) ELSE
  LET lysergic_tokenizer_account == accounts[1]
      principal_token_mint_account == accounts[2]
      user_account == accounts[3]
      user_principal_token_account == accounts[4]
      token_program == accounts[5]
      amount == ui_amount_to_amount(ui)
      st == L.st
      missing == L.acc[user_principal_token_account.key].owner # token_program.key
      created ==
        IF missing
        THEN create_associated_token_account(L, user_account, user_account.key,
               st.principal_token_mint, token_program.key,
               {user_account, user_principal_token_account,
                principal_token_mint_account, accounts[6], token_program,
                accounts[7]})
        ELSE R("Ok", L)
      minted == mint_to(created.L, principal_token_mint_account.key,
                  user_principal_token_account.key, lysergic_tokenizer_account.key,
                  pda_signer(st.underlying_mint, st.expiry_date, st.bump), amount)
  IN  IF L.acc[lysergic_tokenizer_account.key].owner # ProgramId
        THEN R("TokenizerNotInitialized", L)
      ELSE IF ~decodes(L.acc[lysergic_tokenizer_account.key])
        THEN R("BorshIoError", L)
      ELSE IF expiry_date_elapsed(st, L.now) THEN R("ExpiryDateElapsed", L)
      ELSE IF principal_token_mint_account.key # st.principal_token_mint
        THEN R("IncorrectPrincipalMintAddress", L)
      ELSE IF user_principal_token_account.key
                # get_associated_token_address(user_account.key,
                                               st.principal_token_mint)
        THEN R("InvalidUserAccount", L)
      ELSE IF token_program.key # TokenProgram THEN R("IncorrectProgramId", L)
      ELSE IF missing /\ Len(accounts) < 7 THEN R("NotEnoughAccountKeys", L)
      ELSE IF missing /\ accounts[6].key # SystemProgram
        THEN R("IncorrectProgramId", L)
      ELSE IF missing /\ accounts[7].key # ATokenProgram
        THEN R("IncorrectProgramId", L)
      ELSE IF created.res # "Ok" THEN R(created.res, L)
      ELSE IF minted.res # "Ok" THEN R(minted.res, L)
      ELSE R("Ok", minted.L)

process_tokenize_yield(L, accounts, ui) ==
  IF Len(accounts) < 5 THEN R("NotEnoughAccountKeys", L) ELSE
  LET lysergic_tokenizer_account == accounts[1]
      yield_token_mint_account == accounts[2]
      user_account == accounts[3]
      user_yield_token_account == accounts[4]
      token_program == accounts[5]
      amount == ui_amount_to_amount(ui)
      st == L.st
      missing == L.acc[user_yield_token_account.key].owner # token_program.key
      created ==
        IF missing
        THEN create_associated_token_account(L, user_account, user_account.key,
               st.yield_token_mint, token_program.key,
               {user_account, user_yield_token_account,
                yield_token_mint_account, accounts[6], token_program,
                accounts[7]})
        ELSE R("Ok", L)
      minted == mint_to(created.L, yield_token_mint_account.key,
                  user_yield_token_account.key, lysergic_tokenizer_account.key,
                  pda_signer(st.underlying_mint, st.expiry_date, st.bump), amount)
  IN  IF L.acc[lysergic_tokenizer_account.key].owner # ProgramId
        THEN R("TokenizerNotInitialized", L)
      ELSE IF ~decodes(L.acc[lysergic_tokenizer_account.key])
        THEN R("BorshIoError", L)
      ELSE IF expiry_date_elapsed(st, L.now) THEN R("ExpiryDateElapsed", L)
      ELSE IF yield_token_mint_account.key # st.yield_token_mint
        THEN R("IncorrectYieldMintAddress", L)
      ELSE IF user_yield_token_account.key
                # get_associated_token_address(user_account.key,
                                               st.yield_token_mint)
        THEN R("InvalidUserAccount", L)
      ELSE IF token_program.key # TokenProgram THEN R("IncorrectProgramId", L)
      ELSE IF missing /\ Len(accounts) < 7 THEN R("NotEnoughAccountKeys", L)
      ELSE IF missing /\ accounts[6].key # SystemProgram
        THEN R("IncorrectProgramId", L)
      ELSE IF missing /\ accounts[7].key # ATokenProgram
        THEN R("IncorrectProgramId", L)
      ELSE IF created.res # "Ok" THEN R(created.res, L)
      ELSE IF minted.res # "Ok" THEN R(minted.res, L)
      ELSE R("Ok", minted.L)

\* The composite with its third leg tokenizing principal a second time.
process_deposit_and_tokenize_principal_twice(L, accounts, ui) ==
  IF Len(accounts) < 11 THEN R("NotEnoughAccountKeys", L) ELSE
  LET lysergic_tokenizer_account == accounts[1]
      underlying_vault_account == accounts[2]
      principal_token_mint_account == accounts[3]
      yield_token_mint_account == accounts[4]
      user_account == accounts[5]
      user_underlying_token_account == accounts[6]
      user_principal_token_account == accounts[7]
      user_yield_token_account == accounts[8]
      token_program == accounts[9]
      system_program == accounts[10]
      atoken_program == accounts[11]
      deposit_accounts ==
        << lysergic_tokenizer_account, underlying_vault_account, user_account,
           user_underlying_token_account, token_program >>
      tokenize_principal_accounts ==
        << lysergic_tokenizer_account, principal_token_mint_account, user_account,
           user_principal_token_account, token_program, system_program,
           atoken_program >>
      tokenize_yield_accounts ==
        << lysergic_tokenizer_account, yield_token_mint_account, user_account,
           user_yield_token_account, token_program, system_program,
           atoken_program >>
      r1 == process_deposit_underlying(L, deposit_accounts, ui)
      r2 == process_tokenize_principal(r1.L, tokenize_principal_accounts, ui)
      r3 == process_tokenize_principal(r2.L, tokenize_principal_accounts, ui)
  IN  IF r1.res # "Ok" THEN R(r1.res, L)
      ELSE IF r2.res # "Ok" THEN R(r2.res, L)
      ELSE IF r3.res # "Ok" THEN R(r3.res, L)
      ELSE R("Ok", r3.L)

process_deposit_and_tokenize(L, accounts, ui) ==
  IF Len(accounts) < 11 THEN R("NotEnoughAccountKeys", L) ELSE
  LET lysergic_tokenizer_account == accounts[1]
      underlying_vault_account == accounts[2]
      principal_token_mint_account == accounts[3]
      yield_token_mint_account == accounts[4]
      user_account == accounts[5]
      user_underlying_token_account == accounts[6]
      user_principal_token_account == accounts[7]
      user_yield_token_account == accounts[8]
      token_program == accounts[9]
      system_program == accounts[10]
      atoken_program == accounts[11]
      deposit_accounts ==
        << lysergic_tokenizer_account, underlying_vault_account, user_account,
           user_underlying_token_account, token_program >>
      tokenize_principal_accounts ==
        << lysergic_tokenizer_account, principal_token_mint_account, user_account,
           user_principal_token_account, token_program, system_program,
           atoken_program >>
      tokenize_yield_accounts ==
        << lysergic_tokenizer_account, yield_token_mint_account, user_account,
           user_yield_token_account, token_program, system_program,
           atoken_program >>
      r1 == process_deposit_underlying(L, deposit_accounts, ui)
      r2 == process_tokenize_principal(r1.L, tokenize_principal_accounts, ui)
      r3 == process_tokenize_yield(r2.L, tokenize_yield_accounts, ui)
  IN  IF r1.res # "Ok" THEN R(r1.res, L)
      ELSE IF r2.res # "Ok" THEN R(r2.res, L)
      ELSE IF r3.res # "Ok" THEN R(r3.res, L)
      ELSE R("Ok", r3.L)

\* redemption_mode is "Mature" or "PrincipalYield".
\* Principal redemption that leaves the balance test to the token service.
process_redeem_principal_balance_unchecked(L, accounts, redemption_mode, ui) ==
  IF Len(accounts) < 8 THEN R("NotEnoughAccountKeys", L) ELSE
  LET lysergic_tokenizer_account == accounts[1]
      underlying_vault_account == accounts[2]
      underlying_mint_account == accounts[3]
      principal_token_mint_account == accounts[4]
      user_account == accounts[5]
      user_underlying_token_account == accounts[6]
      user_principal_token_account == accounts[7]
      token_program == accounts[8]
      amount == ui_amount_to_amount(ui)
      st == L.st
      missing == L.acc[user_underlying_token_account.key].owner # token_program.key
      created ==
        IF missing
        THEN create_associated_token_account(L, user_account,
               user_underlying_token_account.key, st.underlying_mint,
               user_account.key,
               {user_underlying_token_account, user_account,
                underlying_mint_account, token_program, accounts[9]})
        ELSE R("Ok", L)
      burned == token_burn(created.L, user_principal_token_account.key,
                  principal_token_mint_account.key, user_account.key,
                  user_account.is_signer, amount)
      paid == token_transfer(burned.L, underlying_vault_account.key,
                user_underlying_token_account.key, lysergic_tokenizer_account.key,
                pda_signer(underlying_mint_account.key, st.expiry_date, st.bump)
                  = lysergic_tokenizer_account.key,
                amount)
  IN  IF L.acc[lysergic_tokenizer_account.key].owner # ProgramId
        THEN R("TokenizerNotInitialized", L)
      ELSE IF ~decodes(L.acc[lysergic_tokenizer_account.key])
        THEN R("BorshIoError", L)
      ELSE IF redemption_mode = "Mature" /\ expiry_date_not_elapsed(st, L.now)
        THEN R("ExpiryDateNotElapsed", L)
      ELSE IF L.acc[underlying_vault_account.key].owner # TokenProgram
        THEN R("IncorrectVaultAddress", L)
      ELSE IF underlying_vault_account.key # st.underlying_vault
        THEN R("IncorrectVaultAddress", L)
      ELSE IF underlying_mint_account.key # st.underlying_mint
        THEN R("IncorrectUnderlyingMintAddress", L)
      ELSE IF principal_token_mint_account.key # st.principal_token_mint
        THEN R("IncorrectPrincipalMintAddress", L)
      ELSE IF ~user_account.is_signer THEN R("MissingRequiredSignature", L)
      ELSE IF user_underlying_token_account.key
                # get_associated_token_address(user_account.key, st.underlying_mint)
        THEN R("InvalidUserAccount", L)
      ELSE IF user_principal_token_account.key
                # get_associated_token_address(user_account.key,
                                               st.principal_token_mint)
        THEN R("InvalidUserAccount", L)
      ELSE IF token_program.key # TokenProgram THEN R("IncorrectProgramId", L)
      ELSE IF L.acc[user_principal_token_account.key].kind # "token"
        THEN R("InvalidAccountData", L)
      ELSE IF missing /\ Len(accounts) < 9 THEN R("NotEnoughAccountKeys", L)
      ELSE IF missing /\ accounts[9].key # SystemProgram
        THEN R("IncorrectProgramId", L)
      ELSE IF created.res # "Ok" THEN R(created.res, L)
      ELSE IF burned.res # "Ok" THEN R(burned.res, L)
      ELSE IF paid.res # "Ok" THEN R(paid.res, L)
      ELSE R("Ok", paid.L)

process_redeem_principal(L, accounts, redemption_mode, ui) ==
  IF Len(accounts) < 8 THEN R("NotEnoughAccountKeys", L) ELSE
  LET lysergic_tokenizer_account == accounts[1]
      underlying_vault_account == accounts[2]
      underlying_mint_account == accounts[3]
      principal_token_mint_account == accounts[4]
      user_account == accounts[5]
      user_underlying_token_account == accounts[6]
      user_principal_token_account == accounts[7]
      token_program == accounts[8]
      amount == ui_amount_to_amount(ui)
      st == L.st
      missing == L.acc[user_underlying_token_account.key].owner # token_program.key
      created ==
        IF missing
        THEN create_associated_token_account(L, user_account,
               user_underlying_token_account.key, st.underlying_mint,
               user_account.key,
               {user_underlying_token_account, user_account,
                underlying_mint_account, token_program, accounts[9]})
        ELSE R("Ok", L)
      burned == token_burn(created.L, user_principal_token_account.key,
                  principal_token_mint_account.key, user_account.key,
                  user_account.is_signer, amount)
      paid == token_transfer(burned.L, underlying_vault_account.key,
                user_underlying_token_account.key, lysergic_tokenizer_account.key,
                pda_signer(underlying_mint_account.key, st.expiry_date, st.bump)
                  = lysergic_tokenizer_account.key,
                amount)
  IN  IF L.acc[lysergic_tokenizer_account.key].owner # ProgramId
        THEN R("TokenizerNotInitialized", L)
      ELSE IF ~decodes(L.acc[lysergic_tokenizer_account.key])
        THEN R("BorshIoError", L)
      ELSE IF redemption_mode = "Mature" /\ expiry_date_not_elapsed(st, L.now)
        THEN R("ExpiryDateNotElapsed", L)
      ELSE IF L.acc[underlying_vault_account.key].owner # TokenProgram
        THEN R("IncorrectVaultAddress", L)
      ELSE IF underlying_vault_account.key # st.underlying_vault
        THEN R("IncorrectVaultAddress", L)
      ELSE IF underlying_mint_account.key # st.underlying_mint
        THEN R("IncorrectUnderlyingMintAddress", L)
      ELSE IF principal_token_mint_account.key # st.principal_token_mint
        THEN R("IncorrectPrincipalMintAddress", L)
      ELSE IF ~user_account.is_signer THEN R("MissingRequiredSignature", L)
      ELSE IF user_underlying_token_account.key
                # get_associated_token_address(user_account.key, st.underlying_mint)
        THEN R("InvalidUserAccount", L)
      ELSE IF user_principal_token_account.key
                # get_associated_token_address(user_account.key,
                                               st.principal_token_mint)
        THEN R("InvalidUserAccount", L)
      ELSE IF token_program.key # TokenProgram THEN R("IncorrectProgramId", L)
      ELSE IF L.acc[user_principal_token_account.key].kind # "token"
        THEN R("InvalidAccountData", L)
      ELSE IF L.acc[user_principal_token_account.key].amount < amount
        THEN R("InsufficientFunds", L)
      ELSE IF missing /\ Len(accounts) < 9 THEN R("NotEnoughAccountKeys", L)
      ELSE IF missing /\ accounts[9].key # SystemProgram
        THEN R("IncorrectProgramId", L)
      ELSE IF created.res # "Ok" THEN R(created.res, L)
      ELSE IF burned.res # "Ok" THEN R(burned.res, L)
      ELSE IF paid.res # "Ok" THEN R(paid.res, L)
      ELSE R("Ok", paid.L)

\* Mature redemption that runs the redemption in the ungated mode.
process_redeem_mature_principal_ungated(L, accounts, ui) ==
  process_redeem_principal(L, accounts, "PrincipalYield", ui)

process_redeem_mature_principal(L, accounts, ui) ==
  process_redeem_principal(L, accounts, "Mature", ui)

\* Yield claims that burn the tokens and never ask the vault to pay.
process_claim_yield_burn_only(L, accounts, ui) ==
  IF Len(accounts) < 8 THEN R("NotEnoughAccountKeys", L) ELSE
  LET lysergic_tokenizer_account == accounts[1]
      underlying_vault_account == accounts[2]
      underlying_mint_account == accounts[3]
      yield_token_mint_account == accounts[4]
      user_account == accounts[5]
      user_underlying_token_account == accounts[6]
      user_yield_token_account == accounts[7]
      token_program == accounts[8]
      amount == ui_amount_to_amount(ui)
      st == L.st
      missing == L.acc[user_underlying_token_account.key].owner # token_program.key
      created ==
        IF missing
        THEN create_associated_token_account(L, user_account,
               user_underlying_token_account.key, st.underlying_mint,
               user_account.key,
               {user_underlying_token_account, user_account,
                underlying_mint_account, token_program, accounts[9]})
        ELSE R("Ok", L)
      burned == token_burn(created.L, user_yield_token_account.key,
                  yield_token_mint_account.key, user_account.key,
                  user_account.is_signer, amount)
      paid == token_transfer(burned.L, underlying_vault_account.key,
                user_underlying_token_account.key, lysergic_tokenizer_account.key,
                pda_signer(underlying_mint_account.key, st.expiry_date, st.bump)
                  = lysergic_tokenizer_account.key,
                amount)
  IN  IF L.acc[lysergic_tokenizer_account.key].owner # ProgramId
        THEN R("TokenizerNotInitialized", L)
      ELSE IF ~decodes(L.acc[lysergic_tokenizer_account.key])
        THEN R("BorshIoError", L)
      ELSE IF L.acc[underlying_vault_account.key].owner # TokenProgram
        THEN R("IncorrectVaultAddress", L)
      ELSE IF underlying_vault_account.key # st.underlying_vault
        THEN R("IncorrectVaultAddress", L)
      ELSE IF yield_token_mint_account.key # st.yield_token_mint
        THEN R("IncorrectYieldMintAddress", L)
      ELSE IF ~user_account.is_signer THEN R("MissingRequiredSignature", L)
      ELSE IF user_underlying_token_account.key
                # get_associated_token_address(user_account.key, st.underlying_mint)
        THEN R("InvalidUserAccount", L)
      ELSE IF user_yield_token_account.key
                # get_associated_token_address(user_account.key, st.yield_token_mint)
        THEN R("InvalidUserAccount", L)
      ELSE IF token_program.key # TokenProgram THEN R("IncorrectProgramId", L)
      ELSE IF L.acc[user_yield_token_account.key].kind # "token"
        THEN R("InvalidAccountData", L)
      ELSE IF L.acc[user_yield_token_account.key].amount < amount
        THEN R("InsufficientFunds", L)
      ELSE IF missing /\ Len(accounts) < 9 THEN R("NotEnoughAccountKeys", L)
      ELSE IF missing /\ accounts[9].key # SystemProgram
        THEN R("IncorrectProgramId", L)
      ELSE IF created.res # "Ok" THEN R(created.res, L)
      ELSE IF burned.res # "Ok" THEN R(burned.res, L)
      ELSE R("Ok", burned.L)

\* Yield claims that take the caller's word for the signature.
process_claim_yield_unsigned(L, accounts, ui) ==
  IF Len(accounts) < 8 THEN R("NotEnoughAccountKeys", L) ELSE
  LET lysergic_tokenizer_account == accounts[1]
      underlying_vault_account == accounts[2]
      underlying_mint_account == accounts[3]
      yield_token_mint_account == accounts[4]
      user_account == accounts[5]
      user_underlying_token_account == accounts[6]
      user_yield_token_account == accounts[7]
      token_program == accounts[8]
      amount == ui_amount_to_amount(ui)
      st == L.st
      missing == L.acc[user_underlying_token_account.key].owner # token_program.key
      created ==
        IF missing
        THEN create_associated_token_account(L, user_account,
               user_underlying_token_account.key, st.underlying_mint,
               user_account.key,
               {user_underlying_token_account, user_account,
                underlying_mint_account, token_program, accounts[9]})
        ELSE R("Ok", L)
      burned == token_burn(created.L, user_yield_token_account.key,
                  yield_token_mint_account.key, user_account.key,
                  TRUE, amount)
      paid == token_transfer(burned.L, underlying_vault_account.key,
                user_underlying_token_account.key, lysergic_tokenizer_account.key,
                pda_signer(underlying_mint_account.key, st.expiry_date, st.bump)
                  = lysergic_tokenizer_account.key,
                amount)
  IN  IF L.acc[lysergic_tokenizer_account.key].owner # ProgramId
        THEN R("TokenizerNotInitialized", L)
      ELSE IF ~decodes(L.acc[lysergic_tokenizer_account.key])
        THEN R("BorshIoError", L)
      ELSE IF L.acc[underlying_vault_account.key].owner # TokenProgram
        THEN R("IncorrectVaultAddress", L)
      ELSE IF underlying_vault_account.key # st.underlying_vault
        THEN R("IncorrectVaultAddress", L)
      ELSE IF yield_token_mint_account.key # st.yield_token_mint
        THEN R("IncorrectYieldMintAddress", L)
      ELSE IF user_underlying_token_account.key
                # get_associated_token_address(user_account.key, st.underlying_mint)
        THEN R("InvalidUserAccount", L)
      ELSE IF user_yield_token_account.key
                # get_associated_token_address(user_account.key, st.yield_token_mint)
        THEN R("InvalidUserAccount", L)
      ELSE IF token_program.key # TokenProgram THEN R("IncorrectProgramId", L)
      ELSE IF L.acc[user_yield_token_account.key].kind # "token"
        THEN R("InvalidAccountData", L)
      ELSE IF L.acc[user_yield_token_account.key].amount < amount
        THEN R("InsufficientFunds", L)
      ELSE IF missing /\ Len(accounts) < 9 THEN R("NotEnoughAccountKeys", L)
      ELSE IF missing /\ accounts[9].key # SystemProgram
        THEN R("IncorrectProgramId", L)
      ELSE IF created.res # "Ok" THEN R(created.res, L)
      ELSE IF burned.res # "Ok" THEN R(burned.res, L)
      ELSE IF paid.res # "Ok" THEN R(paid.res, L)
      ELSE R("Ok", paid.L)

\* Yield claims held back until maturity, as mature redemption is.
process_claim_yield_after_maturity(L, accounts, ui) ==
  IF Len(accounts) < 8 THEN R("NotEnoughAccountKeys", L) ELSE
  LET lysergic_tokenizer_account == accounts[1]
      underlying_vault_account == accounts[2]
      underlying_mint_account == accounts[3]
      yield_token_mint_account == accounts[4]
      user_account == accounts[5]
      user_underlying_token_account == accounts[6]
      user_yield_token_account == accounts[7]
      token_program == accounts[8]
      amount == ui_amount_to_amount(ui)
      st == L.st
      missing == L.acc[user_underlying_token_account.key].owner # token_program.key
      created ==
        IF missing
        THEN create_associated_token_account(L, user_account,
               user_underlying_token_account.key, st.underlying_mint,
               user_account.key,
               {user_underlying_token_account, user_account,
                underlying_mint_account, token_program, accounts[9]})
        ELSE R("Ok", L)
      burned == token_burn(created.L, user_yield_token_account.key,
                  yield_token_mint_account.key, user_account.key,
                  user_account.is_signer, amount)
      paid == token_transfer(burned.L, underlying_vault_account.key,
                user_underlying_token_account.key, lysergic_tokenizer_account.key,
                pda_signer(underlying_mint_account.key, st.expiry_date, st.bump)
                  = lysergic_tokenizer_account.key,
                amount)
  IN  IF L.acc[lysergic_tokenizer_account.key].owner # ProgramId
        THEN R("TokenizerNotInitialized", L)
      ELSE IF ~decodes(L.acc[lysergic_tokenizer_account.key])
        THEN R("BorshIoError", L)
      ELSE IF expiry_date_not_elapsed(st, L.now)
        THEN R("ExpiryDateNotElapsed", L)
      ELSE IF L.acc[underlying_vault_account.key].owner # TokenProgram
        THEN R("IncorrectVaultAddress", L)
      ELSE IF underlying_vault_account.key # st.underlying_vault
        THEN R("IncorrectVaultAddress", L)
      ELSE IF yield_token_mint_account.key # st.yield_token_mint
        THEN R("IncorrectYieldMintAddress", L)
      ELSE IF ~user_account.is_signer THEN R("MissingRequiredSignature", L)
      ELSE IF user_underlying_token_account.key
                # get_associated_token_address(user_account.key, st.underlying_mint)
        THEN R("InvalidUserAccount", L)
      ELSE IF user_yield_token_account.key
                # get_associated_token_address(user_account.key, st.yield_token_mint)
        THEN R("InvalidUserAccount", L)
      ELSE IF token_program.key # TokenProgram THEN R("IncorrectProgramId", L)
      ELSE IF L.acc[user_yield_token_account.key].kind # "token"
        THEN R("InvalidAccountData", L)
      ELSE IF L.acc[user_yield_token_account.key].amount < amount
        THEN R("InsufficientFunds", L)
      ELSE IF missing /\ Len(accounts) < 9 THEN R("NotEnoughAccountKeys", L)
      ELSE IF missing /\ accounts[9].key # SystemProgram
        THEN R("IncorrectProgramId", L)
      ELSE IF created.res # "Ok" THEN R(created.res, L)
      ELSE IF burned.res # "Ok" THEN R(burned.res, L)
      ELSE IF paid.res # "Ok" THEN R(paid.res, L)
      ELSE R("Ok", paid.L)

process_claim_yield(L, accounts, ui) ==
  IF Len(accounts) < 8 THEN R("NotEnoughAccountKeys", L) ELSE
  LET lysergic_tokenizer_account == accounts[1]
      underlying_vault_account == accounts[2]
      underlying_mint_account == accounts[3]
      yield_token_mint_account == accounts[4]
      user_account == accounts[5]
      user_underlying_token_account == accounts[6]
      user_yield_token_account == accounts[7]
      token_program == accounts[8]
      amount == ui_amount_to_amount(ui)
      st == L.st
      missing == L.acc[user_underlying_token_account.key].owner # token_program.key
      created ==
        IF missing
        THEN create_associated_token_account(L, user_account,
               user_underlying_token_account.key, st.underlying_mint,
               user_account.key,
               {user_underlying_token_account, user_account,
                underlying_mint_account, token_program, accounts[9]})
        ELSE R("Ok", L)
      burned == token_burn(created.L, user_yield_token_account.key,
                  yield_token_mint_account.key, user_account.key,
                  user_account.is_signer, amount)
      paid == token_transfer(burned.L, underlying_vault_account.key,
                user_underlying_token_account.key, lysergic_tokenizer_account.key,
                pda_signer(underlying_mint_account.key, st.expiry_date, st.bump)
                  = lysergic_tokenizer_account.key,
                amount)
  IN  IF L.acc[lysergic_tokenizer_account.key].owner # ProgramId
        THEN R("TokenizerNotInitialized", L)
      ELSE IF ~decodes(L.acc[lysergic_tokenizer_account.key])
        THEN R("BorshIoError", L)
      ELSE IF L.acc[underlying_vault_account.key].owner # TokenProgram
        THEN R("IncorrectVaultAddress", L)
      ELSE IF underlying_vault_account.key # st.underlying_vault
        THEN R("IncorrectVaultAddress", L)
      ELSE IF yield_token_mint_account.key # st.yield_token_mint
        THEN R("IncorrectYieldMintAddress", L)
      ELSE IF ~user_account.is_signer THEN R("MissingRequiredSignature", L)
      ELSE IF user_underlying_token_account.key
                # get_associated_token_address(user_account.key, st.underlying_mint)
        THEN R("InvalidUserAccount", L)
      ELSE IF user_yield_token_account.key
                # get_associated_token_address(user_account.key, st.yield_token_mint)
        THEN R("InvalidUserAccount", L)
      ELSE IF token_program.key # TokenProgram THEN R("IncorrectProgramId", L)
      ELSE IF L.acc[user_yield_token_account.key].kind # "token"
        THEN R("InvalidAccountData", L)
      ELSE IF L.acc[user_yield_token_account.key].amount < amount
        THEN R("InsufficientFunds", L)
      ELSE IF missing /\ Len(accounts) < 9 THEN R("NotEnoughAccountKeys", L)
      ELSE IF missing /\ accounts[9].key # SystemProgram
        THEN R("IncorrectProgramId", L)
      ELSE IF created.res # "Ok" THEN R(created.res, L)
      ELSE IF burned.res # "Ok" THEN R(burned.res, L)
      ELSE IF paid.res # "Ok" THEN R(paid.res, L)
      ELSE R("Ok", paid.L)

\* The composite redemption that drops the result of its yield leg.
process_redeem_principal_and_yield_claim_unchecked(L, accounts, ui) ==
  IF Len(accounts) < 10 THEN R("NotEnoughAccountKeys", L) ELSE
  LET lysergic_tokenizer_account == accounts[1]
      underlying_vault_account == accounts[2]
      underlying_mint_account == accounts[3]
      principal_token_mint_account == accounts[4]
      yield_token_mint_account == accounts[5]
      user_account == accounts[6]
      user_underlying_token_account == accounts[7]
      user_principal_token_account == accounts[8]
      user_yield_token_account == accounts[9]
      token_program == accounts[10]
      redeem_principal_accounts ==
        << lysergic_tokenizer_account, underlying_vault_account,
           underlying_mint_account, principal_token_mint_account, user_account,
           user_underlying_token_account, user_principal_token_account,
           token_program >>
      claim_yield_accounts ==
        << lysergic_tokenizer_account, underlying_vault_account,
           underlying_mint_account, yield_token_mint_account, user_account,
           user_underlying_token_account, user_yield_token_account, token_program >>
      r1 == process_redeem_principal(L, redeem_principal_accounts,
              "PrincipalYield", ui)
      r2 == process_claim_yield(r1.L, claim_yield_accounts, ui)
  IN  IF r1.res # "Ok" THEN R(r1.res, L)
      ELSE IF r2.res # "Ok" THEN R("Ok", r1.L)
      ELSE R("Ok", r2.L)

\* The composite redemption whose principal leg keeps the maturity gate.
process_redeem_principal_and_yield_mature_only(L, accounts, ui) ==
  IF Len(accounts) < 10 THEN R("NotEnoughAccountKeys", L) ELSE
  LET lysergic_tokenizer_account == accounts[1]
      underlying_vault_account == accounts[2]
      underlying_mint_account == accounts[3]
      principal_token_mint_account == accounts[4]
      yield_token_mint_account == accounts[5]
      user_account == accounts[6]
      user_underlying_token_account == accounts[7]
      user_principal_token_account == accounts[8]
      user_yield_token_account == accounts[9]
      token_program == accounts[10]
      redeem_principal_accounts ==
        << lysergic_tokenizer_account, underlying_vault_account,
           underlying_mint_account, principal_token_mint_account, user_account,
           user_underlying_token_account, user_principal_token_account,
           token_program >>
      claim_yield_accounts ==
        << lysergic_tokenizer_account, underlying_vault_account,
           underlying_mint_account, yield_token_mint_account, user_account,
           user_underlying_token_account, user_yield_token_account, token_program >>
      r1 == process_redeem_principal(L, redeem_principal_accounts,
              "Mature", ui)
      r2 == process_claim_yield(r1.L, claim_yield_accounts, ui)
  IN  IF r1.res # "Ok" THEN R(r1.res, L)
      ELSE IF r2.res # "Ok" THEN R(r2.res, L)
      ELSE R("Ok", r2.L)

process_redeem_principal_and_yield(L, accounts, ui) ==
  IF Len(accounts) < 10 THEN R("NotEnoughAccountKeys", L) ELSE
  LET lysergic_tokenizer_account == accounts[1]
      underlying_vault_account == accounts[2]
      underlying_mint_account == accounts[3]
      principal_token_mint_account == accounts[4]
      yield_token_mint_account == accounts[5]
      user_account == accounts[6]
      user_underlying_token_account == accounts[7]
      user_principal_token_account == accounts[8]
      user_yield_token_account == accounts[9]
      token_program == accounts[10]
      redeem_principal_accounts ==
        << lysergic_tokenizer_account, underlying_vault_account,
           underlying_mint_account, principal_token_mint_account, user_account,
           user_underlying_token_account, user_principal_token_account,
           token_program >>
      claim_yield_accounts ==
        << lysergic_tokenizer_account, underlying_vault_account,
           underlying_mint_account, yield_token_mint_account, user_account,
           user_underlying_token_account, user_yield_token_account, token_program >>
      r1 == process_redeem_principal(L, redeem_principal_accounts,
              "PrincipalYield", ui)
      r2 == process_claim_yield(r1.L, claim_yield_accounts, ui)
  IN  IF r1.res # "Ok" THEN R(r1.res, L)
      ELSE IF r2.res # "Ok" THEN R(r2.res, L)
      ELSE R("Ok", r2.L)

\* Termination of the record that looks at the vault before the clock.
process_terminate_lysergic_tokenizer_vault_first(L, accounts) ==
  IF Len(accounts) < 5 THEN R("NotEnoughAccountKeys", L) ELSE
  LET lysergic_tokenizer_account == accounts[1]
      authority == accounts[2]
      underlying_vault_account == accounts[3]
      token_program == accounts[4]
      system_program == accounts[5]
      st == L.st
      refund == system_transfer(L, lysergic_tokenizer_account.key,
                  pda_signer(st.underlying_mint, st.expiry_date, st.bump)
                    = lysergic_tokenizer_account.key,
                  L.acc[lysergic_tokenizer_account.key].lamports)
  IN  IF L.acc[lysergic_tokenizer_account.key].owner # ProgramId
        THEN R("TokenizerNotInitialized", L)
      ELSE IF ~authority.is_signer THEN R("MissingRequiredSignature", L)
      ELSE IF ~decodes(L.acc[lysergic_tokenizer_account.key])
        THEN R("BorshIoError", L)
      ELSE IF authority.key # st.authority THEN R("Unauthorised", L)
      ELSE IF L.acc[underlying_vault_account.key].kind # "token"
        THEN R("InvalidAccountData", L)
      ELSE IF L.acc[underlying_vault_account.key].amount # 0
        THEN R("VaultNotEmpty", L)
      ELSE IF expiry_date_not_elapsed(st, L.now)
        THEN R("ExpiryDateNotElapsed", L)
      ELSE IF underlying_vault_account.key # st.underlying_vault
        THEN R("IncorrectVaultAddress", L)
      ELSE IF token_program.key # TokenProgram THEN R("IncorrectProgramId", L)
      ELSE IF system_program.key # SystemProgram THEN R("IncorrectProgramId", L)
      ELSE IF refund.res # "Ok" THEN R(refund.res, L)
      ELSE \* assign(system_program) and realloc(0)
           R("Ok", [refund.L EXCEPT
                      !.acc[lysergic_tokenizer_account.key].owner = SystemProgram,
                      !.acc[lysergic_tokenizer_account.key].kind = "empty",
                      !.st = ZeroState])

\* Termination that returns the balance and leaves the record assigned.
process_terminate_lysergic_tokenizer_unreleased(L, accounts) ==
  IF Len(accounts) < 5 THEN R("NotEnoughAccountKeys", L) ELSE
  LET lysergic_tokenizer_account == accounts[1]
      authority == accounts[2]
      underlying_vault_account == accounts[3]
      token_program == accounts[4]
      system_program == accounts[5]
      st == L.st
      refund == system_transfer(L, lysergic_tokenizer_account.key,
                  pda_signer(st.underlying_mint, st.expiry_date, st.bump)
                    = lysergic_tokenizer_account.key,
                  L.acc[lysergic_tokenizer_account.key].lamports)
  IN  IF L.acc[lysergic_tokenizer_account.key].owner # ProgramId
        THEN R("TokenizerNotInitialized", L)
      ELSE IF ~authority.is_signer THEN R("MissingRequiredSignature", L)
      ELSE IF ~decodes(L.acc[lysergic_tokenizer_account.key])
        THEN R("BorshIoError", L)
      ELSE IF authority.key # st.authority THEN R("Unauthorised", L)
      ELSE IF expiry_date_not_elapsed(st, L.now)
        THEN R("ExpiryDateNotElapsed", L)
      ELSE IF L.acc[underlying_vault_account.key].kind # "token"
        THEN R("InvalidAccountData", L)
      ELSE IF L.acc[underlying_vault_account.key].amount # 0
        THEN R("VaultNotEmpty", L)
      ELSE IF underlying_vault_account.key # st.underlying_vault
        THEN R("IncorrectVaultAddress", L)
      ELSE IF token_program.key # TokenProgram THEN R("IncorrectProgramId", L)
      ELSE IF system_program.key # SystemProgram THEN R("IncorrectProgramId", L)
      ELSE IF refund.res # "Ok" THEN R(refund.res, L)
      ELSE R("Ok", refund.L)


process_terminate_lysergic_tokenizer(L, accounts) ==
  IF Len(accounts) < 5 THEN R("NotEnoughAccountKeys", L) ELSE
  LET lysergic_tokenizer_account == accounts[1]
      authority == accounts[2]
      underlying_vault_account == accounts[3]
      token_program == accounts[4]
      system_program == accounts[5]
      st == L.st
      refund == system_transfer(L, lysergic_tokenizer_account.key,
                  pda_signer(st.underlying_mint, st.expiry_date, st.bump)
                    = lysergic_tokenizer_account.key,
                  L.acc[lysergic_tokenizer_account.key].lamports)
  IN  IF L.acc[lysergic_tokenizer_account.key].owner # ProgramId
        THEN R("TokenizerNotInitialized", L)
      ELSE IF ~authority.is_signer THEN R("MissingRequiredSignature", L)
      ELSE IF ~decodes(L.acc[lysergic_tokenizer_account.key])
        THEN R("BorshIoError", L)
      ELSE IF authority.key # st.authority THEN R("Unauthorised", L)
      ELSE IF expiry_date_not_elapsed(st, L.now)
        THEN R("ExpiryDateNotElapsed", L)
      ELSE IF L.acc[underlying_vault_account.key].kind # "token"
        THEN R("InvalidAccountData", L)
      ELSE IF L.acc[underlying_vault_account.key].amount # 0
        THEN R("VaultNotEmpty", L)
      ELSE IF underlying_vault_account.key # st.underlying_vault
        THEN R("IncorrectVaultAddress", L)
      ELSE IF token_program.key # TokenProgram THEN R("IncorrectProgramId", L)
      ELSE IF system_program.key # SystemProgram THEN R("IncorrectProgramId", L)
      ELSE IF refund.res # "Ok" THEN R(refund.res, L)
      ELSE \* assign(system_program) and realloc(0)
           R("Ok", [refund.L EXCEPT
                      !.acc[lysergic_tokenizer_account.key].owner = SystemProgram,
                      !.acc[lysergic_tokenizer_account.key].kind = "empty",
                      !.st = ZeroState])

\* Closing of the mints that accepts any signer as the authority.
process_terminate_mints_any_signer(L, accounts) ==
  IF Len(accounts) < 6 THEN R("NotEnoughAccountKeys", L) ELSE
  LET lysergic_tokenizer_account == accounts[1]
      authority == accounts[2]
      principal_token_mint_account == accounts[3]
      yield_token_mint_account == accounts[4]
      token_program == accounts[5]
      system_program == accounts[6]
      st == L.st
      signer == pda_signer(st.underlying_mint, st.expiry_date, st.bump)
      closed_p == close_account(L, principal_token_mint_account.key,
                    lysergic_tokenizer_account.key, signer)
      closed_y == close_account(closed_p.L, yield_token_mint_account.key,
                    lysergic_tokenizer_account.key, signer)
      refund == system_transfer(closed_y.L, lysergic_tokenizer_account.key,
                  signer = lysergic_tokenizer_account.key,
                  L.acc[lysergic_tokenizer_account.key].lamports)
  IN  IF L.acc[lysergic_tokenizer_account.key].owner # ProgramId
        THEN R("TokenizerNotInitialized", L)
      ELSE IF ~authority.is_signer THEN R("MissingRequiredSignature", L)
      ELSE IF ~decodes(L.acc[lysergic_tokenizer_account.key])
        THEN R("BorshIoError", L)
      ELSE IF expiry_date_not_elapsed(st, L.now)
        THEN R("ExpiryDateNotElapsed", L)
      ELSE IF principal_token_mint_account.key # st.principal_token_mint
        THEN R("IncorrectPrincipalMintAddress", L)
      ELSE IF yield_token_mint_account.key # st.yield_token_mint
        THEN R("IncorrectYieldMintAddress", L)
      ELSE IF token_program.key # TokenProgram THEN R("IncorrectProgramId", L)
      ELSE IF system_program.key # SystemProgram THEN R("IncorrectProgramId", L)
      ELSE IF closed_p.res # "Ok" THEN R(closed_p.res, L)
      ELSE IF closed_y.res # "Ok" THEN R(closed_y.res, L)
      ELSE IF refund.res # "Ok" THEN R(refund.res, L)
      ELSE R("Ok", refund.L)

\* Closing of the mints that releases the record as well.
process_terminate_mints_releasing_record(L, accounts) ==
  IF Len(accounts) < 6 THEN R("NotEnoughAccountKeys", L) ELSE
  LET lysergic_tokenizer_account == accounts[1]
      authority == accounts[2]
      principal_token_mint_account == accounts[3]
      yield_token_mint_account == accounts[4]
      token_program == accounts[5]
      system_program == accounts[6]
      st == L.st
      signer == pda_signer(st.underlying_mint, st.expiry_date, st.bump)
      closed_p == close_account(L, principal_token_mint_account.key,
                    lysergic_tokenizer_account.key, signer)
      closed_y == close_account(closed_p.L, yield_token_mint_account.key,
                    lysergic_tokenizer_account.key, signer)
      refund == system_transfer(closed_y.L, lysergic_tokenizer_account.key,
                  signer = lysergic_tokenizer_account.key,
                  L.acc[lysergic_tokenizer_account.key].lamports)
  IN  IF L.acc[lysergic_tokenizer_account.key].owner # ProgramId
        THEN R("TokenizerNotInitialized", L)
      ELSE IF ~authority.is_signer THEN R("MissingRequiredSignature", L)
      ELSE IF ~decodes(L.acc[lysergic_tokenizer_account.key])
        THEN R("BorshIoError", L)
      ELSE IF authority.key # st.authority THEN R("Unauthorised", L)
      ELSE IF expiry_date_not_elapsed(st, L.now)
        THEN R("ExpiryDateNotElapsed", L)
      ELSE IF principal_token_mint_account.key # st.principal_token_mint
        THEN R("IncorrectPrincipalMintAddress", L)
      ELSE IF yield_token_mint_account.key # st.yield_token_mint
        THEN R("IncorrectYieldMintAddress", L)
      ELSE IF token_program.key # TokenProgram THEN R("IncorrectProgramId", L)
      ELSE IF system_program.key # SystemProgram THEN R("IncorrectProgramId", L)
      ELSE IF closed_p.res # "Ok" THEN R(closed_p.res, L)
      ELSE IF closed_y.res # "Ok" THEN R(closed_y.res, L)
      ELSE IF refund.res # "Ok" THEN R(refund.res, L)
      ELSE R("Ok", [refund.L EXCEPT
                      !.acc[lysergic_tokenizer_account.key].owner = SystemProgram,
                      !.acc[lysergic_tokenizer_account.key].kind = "empty",
                      !.st = ZeroState])

process_terminate_mints(L, accounts) ==
  IF Len(accounts) < 6 THEN R("NotEnoughAccountKeys", L) ELSE
  LET lysergic_tokenizer_account == accounts[1]
      authority == accounts[2]
      principal_token_mint_account == accounts[3]
      yield_token_mint_account == accounts[4]
      token_program == accounts[5]
      system_program == accounts[6]
      st == L.st
      signer == pda_signer(st.underlying_mint, st.expiry_date, st.bump)
      closed_p == close_account(L, principal_token_mint_account.key,
                    lysergic_tokenizer_account.key, signer)
      closed_y == close_account(closed_p.L, yield_token_mint_account.key,
                    lysergic_tokenizer_account.key, signer)
      refund == system_transfer(closed_y.L, lysergic_tokenizer_account.key,
                  signer = lysergic_tokenizer_account.key,
                  L.acc[lysergic_tokenizer_account.key].lamports)
  IN  IF L.acc[lysergic_tokenizer_account.key].owner # ProgramId
        THEN R("TokenizerNotInitialized", L)
      ELSE IF ~authority.is_signer THEN R("MissingRequiredSignature", L)
      ELSE IF ~decodes(L.acc[lysergic_tokenizer_account.key])
        THEN R("BorshIoError", L)
      ELSE IF authority.key # st.authority THEN R("Unauthorised", L)
      ELSE IF expiry_date_not_elapsed(st, L.now)
        THEN R("ExpiryDateNotElapsed", L)
      ELSE IF principal_token_mint_account.key # st.principal_token_mint
        THEN R("IncorrectPrincipalMintAddress", L)
      ELSE IF yield_token_mint_account.key # st.yield_token_mint
        THEN R("IncorrectYieldMintAddress", L)
      ELSE IF token_program.key # TokenProgram THEN R("IncorrectProgramId", L)
      ELSE IF system_program.key # SystemProgram THEN R("IncorrectProgramId", L)
      ELSE IF closed_p.res # "Ok" THEN R(closed_p.res, L)
      ELSE IF closed_y.res # "Ok" THEN R(closed_y.res, L)
      ELSE IF refund.res # "Ok" THEN R(refund.res, L)
      ELSE R("Ok", refund.L)

process_terminate(L, accounts) ==
  IF Len(accounts) < 7 THEN R("NotEnoughAccountKeys", L) ELSE
  LET lysergic_tokenizer_account == accounts[1]
      authority == accounts[2]
      underlying_vault_account == accounts[3]
      principal_token_mint_account == accounts[4]
      yield_token_mint_account == accounts[5]
      token_program == accounts[6]
      system_program == accounts[7]
      terminate_tokenizer_accounts ==
        << lysergic_tokenizer_account, authority, underlying_vault_account,
           token_program, system_program >>
      terminate_mint_accounts ==
        << lysergic_tokenizer_account, authority, principal_token_mint_account,
           yield_token_mint_account, token_program, system_program >>
      \* the two sub-handlers receive each other's account lists
      r1 == process_terminate_mints(L, terminate_tokenizer_accounts)
      r2 == process_terminate_lysergic_tokenizer(r1.L, terminate_mint_accounts)
  IN  IF r1.res # "Ok" THEN R(r1.res, L)
      ELSE IF r2.res # "Ok" THEN R(r2.res, L)
      ELSE R("Ok", r2.L)

\* ------------------------------------------------------------------ inputs
\* The account list each instruction documents, in order.
Signed(k) == AccountInfo(k, TRUE)
Plain(k) == AccountInfo(k, FALSE)

InitializeTokenizerAccounts ==
  << Plain("tokenizer"), Signed("authority"), Plain("vault"), Plain("underlying_mint"),
     Plain(TokenProgram), Plain(SystemProgram), Plain(ATokenProgram) >>

InitializeMintsAccounts ==
  << Plain("tokenizer"), Signed("authority"), Plain("underlying_mint"),
     Plain("principal_mint"), Plain("yield_mint"), Plain(TokenProgram),
     Plain(SystemProgram) >>

InitializeTokenizerAndMintsAccounts ==
  << Plain("tokenizer"), Signed("authority"), Plain("vault"), Plain("underlying_mint"),
     Plain("principal_mint"), Plain("yield_mint"), Plain(TokenProgram),
     Plain(SystemProgram), Plain(ATokenProgram) >>

DepositAccounts ==
  << Plain("tokenizer"), Plain("vault"), Signed("user"), Plain("user_underlying"),
     Plain(TokenProgram) >>

TokenizePrincipalAccounts ==
  << Plain("tokenizer"), Plain("principal_mint"), Signed("user"),
     Plain("user_principal"), Plain(TokenProgram), Plain(SystemProgram),
     Plain(ATokenProgram) >>

TokenizeYieldAccounts ==
  << Plain("tokenizer"), Plain("yield_mint"), Signed("user"), Plain("user_yield"),
     Plain(TokenProgram), Plain(SystemProgram), Plain(ATokenProgram) >>

DepositAndTokenizeAccounts ==
  << Plain("tokenizer"), Plain("vault"), Plain("principal_mint"), Plain("yield_mint"),
     Signed("user"), Plain("user_underlying"), Plain("user_principal"),
     Plain("user_yield"), Plain(TokenProgram), Plain(SystemProgram),
     Plain(ATokenProgram) >>

RedeemPrincipalAccounts ==
  << Plain("tokenizer"), Plain("vault"), Plain("underlying_mint"),
     Plain("principal_mint"), Signed("user"), Plain("user_underlying"),
     Plain("user_principal"), Plain(TokenProgram), Plain(SystemProgram) >>

ClaimYieldAccounts ==
  << Plain("tokenizer"), Plain("vault"), Plain("underlying_mint"), Plain("yield_mint"),
     Signed("user"), Plain("user_underlying"), Plain("user_yield"),
     Plain(TokenProgram), Plain(SystemProgram) >>

RedeemPrincipalAndYieldAccounts ==
  << Plain("tokenizer"), Plain("vault"), Plain("underlying_mint"),
     Plain("principal_mint"), Plain("yield_mint"), Signed("user"),
     Plain("user_underlying"), Plain("user_principal"), Plain("user_yield"),
     Plain(TokenProgram) >>

TerminateAccounts ==
  << Plain("tokenizer"), Signed("authority"), Plain("vault"), Plain("principal_mint"),
     Plain("yield_mint"), Plain(TokenProgram), Plain(SystemProgram) >>

TerminateTokenizerAccounts ==
  << Plain("tokenizer"), Signed("authority"), Plain("vault"), Plain(TokenProgram),
     Plain(SystemProgram) >>

TerminateMintsAccounts ==
  << Plain("tokenizer"), Signed("authority"), Plain("principal_mint"),
     Plain("yield_mint"), Plain(TokenProgram), Plain(SystemProgram) >>

\* What a caller may supply in place of an account: another account (a wallet
\* that signs where the documented account signs), the same account unsigned,
\* another token account for the vault.
Substitutes(info) ==
  {AccountInfo("other", info.is_signer)}
    \cup (IF info.is_signer THEN {AccountInfo(info.key, FALSE)} ELSE {})
    \cup (IF info.key = "vault" THEN {Plain("user_underlying")} ELSE {})

\* The documented list, the list with one account substituted, and the list
\* without its last account.
Supplied(documented) ==
  {documented}
    \cup UNION {{[documented EXCEPT ![i] = a] : a \in Substitutes(documented[i])} :
                 i \in DOMAIN documented}
    \cup {SubSeq(documented, 1, Len(documented) - 1)}

Amounts == 0..MaxAmount

\* The parameters of an initialization of the record for (underlying_mint,
\* Maturity), and the parameters a caller may send instead.
DocumentedParams ==
  [underlying_mint |-> "underlying_mint", principal_token_mint |-> "principal_mint",
   yield_token_mint |-> "yield_mint", expiry |-> Maturity, fixed_apy |-> 0]

InitializeParams ==
  {DocumentedParams,
   [DocumentedParams EXCEPT !.underlying_mint = "other"],
   [DocumentedParams EXCEPT !.principal_token_mint = "other"],
   [DocumentedParams EXCEPT !.yield_token_mint = "other"],
   [DocumentedParams EXCEPT !.expiry = Maturity + 1]}

\* ----------------------------------------------------------------- actions
SupplyCap == ui_amount_to_amount(MaxSupply)

\* The platform keeps an instruction's writes only when it returns Ok.
Commit(op, r, amount) ==
  /\ r.L.acc["principal_mint"].amount <= SupplyCap
  /\ r.L.acc["yield_mint"].amount <= SupplyCap
  /\ accts' = IF r.res = "Ok" THEN r.L.acc ELSE accts
  /\ data' = IF r.res = "Ok" THEN r.L.st ELSE data
  /\ last' = [op |-> op, res |-> r.res, amount |-> amount]
  /\ UNCHANGED now

InitializeTokenizer ==
  LET p == DocumentedParams
  IN  Commit("InitializeTokenizer",
             process_initialize_lysergic_tokenizer(Ledger, InitializeTokenizerAccounts,
               p.underlying_mint, p.principal_token_mint, p.yield_token_mint,
               p.expiry, p.fixed_apy),
             0)

InitializeMints ==
  LET p == DocumentedParams
  IN  Commit("InitializeMints",
             process_initialize_mints(Ledger, InitializeMintsAccounts,
               p.underlying_mint, p.expiry),
             0)

InitializeTokenizerAndMints ==
  LET p == DocumentedParams
  IN  Commit("InitializeTokenizerAndMints",
             process_initialize_tokenizer_and_mints(Ledger,
               InitializeTokenizerAndMintsAccounts, p.underlying_mint,
               p.principal_token_mint, p.yield_token_mint, p.expiry, p.fixed_apy),
             0)

DepositUnderlying ==
  \E amount \in Amounts :
    Commit("DepositUnderlying",
           process_deposit_underlying(Ledger, DepositAccounts, amount), amount)

TokenizePrincipal ==
  \E amount \in Amounts :
    Commit("TokenizePrincipal",
           process_tokenize_principal(Ledger, TokenizePrincipalAccounts, amount),
           amount)

TokenizeYield ==
  \E amount \in Amounts :
    Commit("TokenizeYield",
           process_tokenize_yield(Ledger, TokenizeYieldAccounts, amount), amount)

DepositAndTokenize ==
  \E amount \in Amounts :
    Commit("DepositAndTokenize",
           process_deposit_and_tokenize(Ledger, DepositAndTokenizeAccounts, amount),
           amount)

RedeemPrincipalAndYield ==
  \E amount \in Amounts :
    Commit("RedeemPrincipalAndYield",
           process_redeem_principal_and_yield(Ledger,
             RedeemPrincipalAndYieldAccounts, amount),
           amount)

RedeemMaturePrincipal ==
  \E amount \in Amounts :
    Commit("RedeemMaturePrincipal",
           process_redeem_mature_principal(Ledger, RedeemPrincipalAccounts, amount),
           amount)

ClaimYield ==
  \E amount \in Amounts :
    Commit("ClaimYield", process_claim_yield(Ledger, ClaimYieldAccounts, amount),
           amount)

Terminate ==
  Commit("Terminate", process_terminate(Ledger, TerminateAccounts), 0)

TerminateTokenizer ==
  Commit("TerminateTokenizer",
         process_terminate_lysergic_tokenizer(Ledger, TerminateTokenizerAccounts), 0)

TerminateMints ==
  Commit("TerminateMints", process_terminate_mints(Ledger, TerminateMintsAccounts), 0)

\* The clock oracle moves on between instructions.
Tick ==
  /\ now < MaxTime
  /\ now' = now + 1
  /\ last' = NoLast
  /\ UNCHANGED <<accts, data>>

Next ==
  \/ InitializeTokenizer
  \/ InitializeMints
  \/ InitializeTokenizerAndMints
  \/ DepositUnderlying
  \/ TokenizePrincipal
  \/ TokenizeYield
  \/ DepositAndTokenize
  \/ RedeemPrincipalAndYield
  \/ RedeemMaturePrincipal
  \/ ClaimYield
  \/ Terminate
  \/ TerminateTokenizer
  \/ TerminateMints
  \/ Tick

Spec == Init /\ [][Next]_vars

\* ------------------------------------------------- callers without standing
\* Whoever a caller may put in the authority slot of a termination other than
\* the signing authority of the record.
OtherAuthorities == {Signed("other"), Plain("authority"), Plain("other")}

WithAuthority(documented, a) == [documented EXCEPT ![2] = a]

\* The documented list with the signature of the account in slot i missing.
Unsigned(documented, i) == [documented EXCEPT ![i] = Plain(documented[i].key)]

TerminateTokenizerBy ==
  \E a \in OtherAuthorities :
    Commit("TerminateTokenizerBy",
           process_terminate_lysergic_tokenizer(Ledger,
             WithAuthority(TerminateTokenizerAccounts, a)), 0)

TerminateMintsBy ==
  \E a \in OtherAuthorities :
    Commit("TerminateMintsBy",
           process_terminate_mints(Ledger, WithAuthority(TerminateMintsAccounts, a)), 0)

DepositUnderlyingUnsigned ==
  \E amount \in Amounts :
    Commit("DepositUnderlyingUnsigned",
           process_deposit_underlying(Ledger, Unsigned(DepositAccounts, 3), amount),
           amount)

DepositAndTokenizeUnsigned ==
  \E amount \in Amounts :
    Commit("DepositAndTokenizeUnsigned",
           process_deposit_and_tokenize(Ledger,
             Unsigned(DepositAndTokenizeAccounts, 5), amount),
           amount)

RedeemMaturePrincipalUnsigned ==
  \E amount \in Amounts :
    Commit("RedeemMaturePrincipalUnsigned",
           process_redeem_mature_principal(Ledger,
             Unsigned(RedeemPrincipalAccounts, 5), amount),
           amount)

ClaimYieldUnsigned ==
  \E amount \in Amounts :
    Commit("ClaimYieldUnsigned",
           process_claim_yield(Ledger, Unsigned(ClaimYieldAccounts, 5), amount),
           amount)

RedeemPrincipalAndYieldUnsigned ==
  \E amount \in Amounts :
    Commit("RedeemPrincipalAndYieldUnsigned",
           process_redeem_principal_and_yield(Ledger,
             Unsigned(RedeemPrincipalAndYieldAccounts, 6), amount),
           amount)

NextCallers ==
  \/ Next
  \/ TerminateTokenizerBy
  \/ TerminateMintsBy
  \/ DepositUnderlyingUnsigned
  \/ DepositAndTokenizeUnsigned
  \/ RedeemMaturePrincipalUnsigned
  \/ ClaimYieldUnsigned
  \/ RedeemPrincipalAndYieldUnsigned

\* The instructions as documented, and the same instructions sent by callers
\* who are not the record's authority or who have not signed.
SpecCallers == Init /\ [][NextCallers]_vars

\* ------------------------------------------------------------------ claims
\* The record is live: the protocol owns it and it decodes.
Initialized == accts["tokenizer"].owner = ProgramId /\ accts["tokenizer"].kind = "state"

\* Both derived mints exist.
MintsInitialized == accts["principal_mint"].kind = "mint" /\ accts["yield_mint"].kind = "mint"

\* A whole-token amount in base units (six decimals).
BaseUnits(n) == n * 1000000

\* The supplied list names the live record in its first slot.
OnRecord(accounts) == accounts[1].key = "tokenizer"

TokenizeOps == {"TokenizePrincipal", "TokenizeYield"}

PostMaturityOps == {"RedeemMaturePrincipal", "TerminateTokenizer", "TerminateMints"}

\* The supplied list names the live record and carries the signature of its
\* stored authority.
ByStoredAuthority(accounts) ==
  /\ Len(accounts) >= 2
  /\ accounts[1].key = "tokenizer"
  /\ accounts[2] = Signed(data.authority)

C3_TokenizeOutcome ==
  (Initialized /\ MintsInitialized) =>
    \A amount \in Amounts \ {0} :
      LET p == process_tokenize_principal(Ledger, TokenizePrincipalAccounts, amount)
          y == process_tokenize_yield(Ledger, TokenizeYieldAccounts, amount)
      IN  /\ now > data.expiry_date
               => p.res = "ExpiryDateElapsed" /\ y.res = "ExpiryDateElapsed"
          /\ now < data.expiry_date => p.res = "Ok" /\ y.res = "Ok"
          /\ p.res = "Ok" =>
               /\ p.L.acc["user_principal"].kind = "token"
               /\ p.L.acc["user_principal"].amount
                    = accts["user_principal"].amount + BaseUnits(amount)
               /\ p.L.acc["principal_mint"].amount
                    = accts["principal_mint"].amount + BaseUnits(amount)
               /\ \A k \in {"user_yield", "user_underlying", "vault"} :
                    p.L.acc[k].amount = accts[k].amount
          /\ y.res = "Ok" =>
               /\ y.L.acc["user_yield"].kind = "token"
               /\ y.L.acc["user_yield"].amount
                    = accts["user_yield"].amount + BaseUnits(amount)
               /\ y.L.acc["yield_mint"].amount
                    = accts["yield_mint"].amount + BaseUnits(amount)
               /\ \A k \in {"user_principal", "user_underlying", "vault"} :
                    y.L.acc[k].amount = accts[k].amount

\* Yield tokens minted strictly before maturity, all of them by this call.
C3_Witness ==
  /\ Initialized /\ now < data.expiry_date
  /\ last.op = "TokenizeYield" /\ last.res = "Ok" /\ last.amount > 0
  /\ accts["user_yield"].amount = BaseUnits(last.amount)


\* C4: after maturity, RedeemMaturePrincipal(amount) by a caller who holds at
\* least amount principal tokens goes through (burning amount principal and
\* paying amount underlying out of the vault).
C4_AsStated ==
  ( /\ Initialized /\ now > data.expiry_date
    /\ last.op = "RedeemMaturePrincipal" /\ last.amount > 0
    /\ accts["user_principal"].kind = "token"
    /\ accts["user_principal"].amount >= BaseUnits(last.amount) )
    => last.res = "Ok"

\* C5: ClaimYield has no time gate. Whatever accounts and amount are supplied,
\* its result and its effect on the accounts are the same at every clock
\* reading, and it never fails with ExpiryDateElapsed or ExpiryDateNotElapsed;
\* a success burns exactly amount yield tokens of the caller and moves exactly
\* amount underlying from the vault to the caller.
C5_ClaimYieldUngated ==
  \A amount \in Amounts :
    \A accounts \in Supplied(ClaimYieldAccounts) :
      LET r == process_claim_yield(Ledger, accounts, amount)
      IN  /\ r.res \notin {"ExpiryDateElapsed", "ExpiryDateNotElapsed"}
          /\ \A t \in 0..MaxTime :
               LET rt == process_claim_yield([Ledger EXCEPT !.now = t], accounts, amount)
               IN  rt.res = r.res /\ rt.L.acc = r.L.acc /\ rt.L.st = r.L.st
          /\ (r.res = "Ok" /\ accounts = ClaimYieldAccounts) =>
               /\ r.L.acc["user_yield"].amount
                    = accts["user_yield"].amount - BaseUnits(amount)
               /\ r.L.acc["yield_mint"].amount
                    = accts["yield_mint"].amount - BaseUnits(amount)
               /\ r.L.acc["vault"].amount = accts["vault"].amount - BaseUnits(amount)
               /\ r.L.acc["user_underlying"].amount
                    = accts["user_underlying"].amount + BaseUnits(amount)
               /\ r.L.acc["user_principal"] = accts["user_principal"]
               /\ r.L.acc["principal_mint"] = accts["principal_mint"]

\* Yield claimed and paid while the clock is still before maturity.
C5_Witness ==
  /\ Initialized /\ now < data.expiry_date
  /\ last.op = "ClaimYield" /\ last.res = "Ok" /\ last.amount > 0
  /\ accts["user_underlying"].amount >= BaseUnits(last.amount)

\* C6: before maturity, DepositAndTokenize(amount) succeeds exactly when
\* DepositUnderlying(amount), TokenizePrincipal(amount), TokenizeYield(amount)
\* in sequence all succeed, and leaves the same ledger as the sequence; it does
\* succeed when the mints are in place and the caller holds amount underlying.
\* A success raises the vault by exactly amount, lowers the caller's underlying
\* by exactly amount and raises the caller's principal and yield balances by
\* exactly amount each.
C6_DepositAndTokenizeRoundTrip ==
  (Initialized /\ now < data.expiry_date) =>
    \A amount \in Amounts :
      LET c == process_deposit_and_tokenize(Ledger, DepositAndTokenizeAccounts, amount)
          d == process_deposit_underlying(Ledger, DepositAccounts, amount)
          p == process_tokenize_principal(d.L, TokenizePrincipalAccounts, amount)
          y == process_tokenize_yield(p.L, TokenizeYieldAccounts, amount)
          sequence_ok == d.res = "Ok" /\ p.res = "Ok" /\ y.res = "Ok"
      IN  /\ c.res = "Ok" <=> sequence_ok
          /\ c.res # "Ok" => c.L = Ledger
          /\ ( /\ MintsInitialized
               /\ accts["user_underlying"].kind = "token"
               /\ accts["user_underlying"].amount >= BaseUnits(amount) )
               => c.res = "Ok"
          /\ c.res = "Ok" =>
               /\ c.L = y.L
               /\ c.L.acc["vault"].amount = accts["vault"].amount + BaseUnits(amount)
               /\ c.L.acc["user_underlying"].amount
                    = accts["user_underlying"].amount - BaseUnits(amount)
               /\ c.L.acc["user_principal"].amount
                    = accts["user_principal"].amount + BaseUnits(amount)
               /\ c.L.acc["user_yield"].amount
                    = accts["user_yield"].amount + BaseUnits(amount)

\* A composite deposit-and-tokenize that went through: the caller's principal
\* and yield balances and the vault all carry the amount.
C6_Witness ==
  /\ Initialized /\ now < data.expiry_date
  /\ last.op = "DepositAndTokenize" /\ last.res = "Ok" /\ last.amount > 0
  /\ accts["vault"].amount >= BaseUnits(last.amount)
  /\ accts["user_principal"].amount >= BaseUnits(last.amount)
  /\ accts["user_yield"].amount >= BaseUnits(last.amount)

TerminationOps == {"Terminate", "TerminateTokenizer", "TerminateMints"}

\* C7: the composite Terminate, called by the signing stored authority with the
\* documented accounts at or after maturity on a record with its mints in place
\* and its vault empty, succeeds; after a success both mints are closed and the
\* record is handed back with no storage.
C7_AsStated ==
  /\ ( /\ Initialized /\ now >= data.expiry_date
       /\ last.op = "Terminate"
       /\ data.authority = "authority"
       /\ accts["vault"].kind = "token" /\ accts["vault"].amount = 0
       /\ MintsInitialized )
       => last.res = "Ok"
  /\ (last.op = "Terminate" /\ last.res = "Ok")
       => /\ accts["principal_mint"].kind = "empty"
          /\ accts["yield_mint"].kind = "empty"
          /\ accts["tokenizer"].owner # ProgramId
          /\ data_len(accts["tokenizer"]) = 0

\* C8: no termination instruction succeeds while the vault holds a balance.
C8_AsStated ==
  (last.op \in TerminationOps /\ last.res = "Ok")
    => accts["vault"].amount = 0

\* C9 as stated: termination of the record by the signing stored authority
\* fails with VaultNotEmpty whenever the vault balance is not 0 and with
\* ExpiryDateNotElapsed whenever now < maturity.
C9_AsStated ==
  ( /\ Initialized /\ last.op = "TerminateTokenizer"
    /\ data.authority = "authority" /\ accts["vault"].kind = "token" )
    => /\ accts["vault"].amount # 0 => last.res = "VaultNotEmpty"
       /\ now < data.expiry_date => last.res = "ExpiryDateNotElapsed"

\* C9 amended: termination of the record called on the live record by its
\* signing stored authority, whatever the other accounts supplied, fails with
\* ExpiryDateNotElapsed whenever now <= maturity (whatever the vault holds), and
\* with VaultNotEmpty whenever now > maturity and the vault account supplied
\* holds a balance other than 0; either way the record stays.
C9_TerminationRefusals ==
  Initialized =>
    \A accounts \in {a \in Supplied(TerminateTokenizerAccounts) :
                       /\ Len(a) = Len(TerminateTokenizerAccounts)
                       /\ OnRecord(a) /\ ByStoredAuthority(a)} :
      LET r == process_terminate_lysergic_tokenizer(Ledger, accounts)
          supplied_vault == accts[accounts[3].key]
      IN  /\ now <= data.expiry_date
               => r.res = "ExpiryDateNotElapsed" /\ r.L = Ledger
          /\ ( /\ now > data.expiry_date
               /\ supplied_vault.kind = "token" /\ supplied_vault.amount # 0 )
               => r.res = "VaultNotEmpty" /\ r.L = Ledger

\* The stored authority refused with VaultNotEmpty after maturity.
C9_Witness ==
  /\ Initialized /\ now > data.expiry_date /\ accts["vault"].amount > 0
  /\ last.op = "TerminateTokenizer" /\ last.res = "VaultNotEmpty"

\* C10: a terminated record (initialized once, its vault still standing, and
\* no longer owned by the protocol) is found only after maturity, with an empty
\* vault and with neither mint still open.
C10_AsStated ==
  (accts["vault"].kind = "token" /\ accts["tokenizer"].owner # ProgramId)
    => /\ now >= Maturity
       /\ accts["vault"].amount = 0
       /\ accts["principal_mint"].kind # "mint"
       /\ accts["yield_mint"].kind # "mint"


\* C11: only the authority stored in the record terminates. On an initialized
\* record TerminateTokenizer and TerminateMints fail with
\* MissingRequiredSignature when the account in the authority slot has not
\* signed and with Unauthorised when it has signed but is not the stored
\* authority; in neither case is a mint closed or the record released, and no
\* call by anyone but the signing stored authority ever succeeds.
C11_OnlyStoredAuthority ==
  /\ \A k \in {"authority", "other", "user"} : \A s \in BOOLEAN :
       LET a == AccountInfo(k, s)
           rt == process_terminate_lysergic_tokenizer(Ledger,
                   WithAuthority(TerminateTokenizerAccounts, a))
           rm == process_terminate_mints(Ledger,
                   WithAuthority(TerminateMintsAccounts, a))
       IN  /\ (Initialized /\ ~s)
                => /\ rt.res = "MissingRequiredSignature"
                   /\ rm.res = "MissingRequiredSignature"
           /\ (Initialized /\ s /\ k # data.authority)
                => rt.res = "Unauthorised" /\ rm.res = "Unauthorised"
           /\ a # Signed(data.authority)
                => /\ rt.res # "Ok" /\ rt.L = Ledger
                   /\ rm.res # "Ok" /\ rm.L = Ledger
  /\ (Initialized /\ last.op \in {"TerminateTokenizerBy", "TerminateMintsBy"})
       => last.res \in {"MissingRequiredSignature", "Unauthorised"}

\* A signer who is not the stored authority is turned away from a record that
\* its authority could terminate: maturity passed, vault empty.
C11_Witness ==
  /\ Initialized /\ now > data.expiry_date /\ accts["vault"].amount = 0
  /\ last.op = "TerminateMintsBy" /\ last.res = "Unauthorised"
  /\ process_terminate_mints(Ledger, TerminateMintsAccounts).res = "Ok"


\* C12: on an initialized record a second initialization for the same
\* (underlying_mint, maturity), alone or as the first leg of
\* InitializeTokenizerAndMints, by any signer and with any fixed_apy, fails with
\* TokenizerAlreadyInitialized and leaves every field of the record as it was
\* written the first time.
C12_SecondInitialization ==
  Initialized =>
    /\ \A a \in {Signed("authority"), Signed("other")} : \A apy \in 0..1 :
         LET p == DocumentedParams
             r == process_initialize_lysergic_tokenizer(Ledger,
                    WithAuthority(InitializeTokenizerAccounts, a),
                    p.underlying_mint, p.principal_token_mint, p.yield_token_mint,
                    p.expiry, apy)
             c == process_initialize_tokenizer_and_mints(Ledger,
                    WithAuthority(InitializeTokenizerAndMintsAccounts, a),
                    p.underlying_mint, p.principal_token_mint, p.yield_token_mint,
                    p.expiry, apy)
         IN  /\ r.res = "TokenizerAlreadyInitialized" /\ r.L = Ledger
             /\ c.res = "TokenizerAlreadyInitialized" /\ c.L = Ledger
    /\ data = [bump |-> get_tokenizer_address("underlying_mint", Maturity).bump,
               authority |-> "authority",
               principal_token_mint |-> "principal_mint",
               yield_token_mint |-> "yield_mint",
               underlying_mint |-> "underlying_mint",
               underlying_vault |-> "vault",
               expiry_date |-> Maturity,
               fixed_apy |-> DocumentedParams.fixed_apy]
    /\ last.op \in {"InitializeTokenizer", "InitializeTokenizerAndMints"}
         => last.res \in {"Ok", "TokenizerAlreadyInitialized"}

\* A second initialization turned away from a record that already holds a
\* deposit.
C12_Witness ==
  /\ Initialized /\ accts["vault"].amount > 0
  /\ last.op = "InitializeTokenizer" /\ last.res = "TokenizerAlreadyInitialized"


InitializationOps ==
  {"InitializeTokenizer", "InitializeMints", "InitializeTokenizerAndMints"}

\* C13: every instruction other than the three initializations, sent for a
\* record account the protocol does not own, fails with
\* TokenizerNotInitialized.
C13_AsStated ==
  ( /\ accts["tokenizer"].owner # ProgramId
    /\ last.op \notin InitializationOps \cup {"none"} )
    => last.res = "TokenizerNotInitialized"


UnsignedOps ==
  {"DepositUnderlyingUnsigned", "DepositAndTokenizeUnsigned",
   "RedeemMaturePrincipalUnsigned", "ClaimYieldUnsigned",
   "RedeemPrincipalAndYieldUnsigned"}

\* What the instruction would do were the user's signature present.
SignedOutcome(op, amount) ==
  CASE op = "DepositUnderlyingUnsigned" ->
         process_deposit_underlying(Ledger, DepositAccounts, amount)
    [] op = "DepositAndTokenizeUnsigned" ->
         process_deposit_and_tokenize(Ledger, DepositAndTokenizeAccounts, amount)
    [] op = "RedeemMaturePrincipalUnsigned" ->
         process_redeem_mature_principal(Ledger, RedeemPrincipalAccounts, amount)
    [] op = "ClaimYieldUnsigned" ->
         process_claim_yield(Ledger, ClaimYieldAccounts, amount)
    [] op = "RedeemPrincipalAndYieldUnsigned" ->
         process_redeem_principal_and_yield(Ledger, RedeemPrincipalAndYieldAccounts,
           amount)

\* The same instruction with the user's signature missing.
UnsignedOutcome(op, amount) ==
  CASE op = "DepositUnderlyingUnsigned" ->
         process_deposit_underlying(Ledger, Unsigned(DepositAccounts, 3), amount)
    [] op = "DepositAndTokenizeUnsigned" ->
         process_deposit_and_tokenize(Ledger,
           Unsigned(DepositAndTokenizeAccounts, 5), amount)
    [] op = "RedeemMaturePrincipalUnsigned" ->
         process_redeem_mature_principal(Ledger,
           Unsigned(RedeemPrincipalAccounts, 5), amount)
    [] op = "ClaimYieldUnsigned" ->
         process_claim_yield(Ledger, Unsigned(ClaimYieldAccounts, 5), amount)
    [] op = "RedeemPrincipalAndYieldUnsigned" ->
         process_redeem_principal_and_yield(Ledger,
           Unsigned(RedeemPrincipalAndYieldAccounts, 6), amount)

C15_EndToEnd ==
  /\ accts["vault"].amount >= 0
  /\ ( /\ accts["tokenizer"].kind = "empty" /\ accts["vault"].kind = "empty"
       /\ accts["principal_mint"].kind = "empty"
       /\ accts["yield_mint"].kind = "empty"
       /\ accts["user_underlying"].kind = "token" /\ now <= Maturity )
       => \A amount \in Amounts \ {0} :
            BaseUnits(amount) <= accts["user_underlying"].amount =>
              LET p == DocumentedParams
                  s1 == process_initialize_lysergic_tokenizer(Ledger,
                          InitializeTokenizerAccounts, p.underlying_mint,
                          p.principal_token_mint, p.yield_token_mint, p.expiry,
                          p.fixed_apy)
                  s2 == process_initialize_mints(s1.L, InitializeMintsAccounts,
                          p.underlying_mint, p.expiry)
                  s3 == process_deposit_underlying(s2.L, DepositAccounts, amount)
                  s4 == process_tokenize_principal(s3.L, TokenizePrincipalAccounts,
                          amount)
                  s5 == process_tokenize_yield(s4.L, TokenizeYieldAccounts, amount)
                  s6 == process_redeem_mature_principal(
                          [s5.L EXCEPT !.now = Maturity + 1],
                          RedeemPrincipalAccounts, amount)
                  s7 == process_claim_yield(s6.L, ClaimYieldAccounts, amount)
              IN  /\ \A s \in {s1, s2, s3, s4, s5, s6} : s.res = "Ok"
                  /\ s5.L.acc["vault"].amount = BaseUnits(amount)
                  /\ s6.L.acc["vault"].amount = 0
                  /\ s6.L.acc["user_underlying"].amount
                       = accts["user_underlying"].amount
                  /\ s6.L.acc["user_principal"].amount = 0
                  /\ s7.res = "TokenInsufficientFunds"
                  /\ s7.L = s6.L
                  /\ s7.L.acc["user_yield"].amount = BaseUnits(amount)
                  /\ s7.L.acc["yield_mint"].amount = BaseUnits(amount)

\* The end of the scenario as run: after maturity the principal is redeemed,
\* the vault is empty, and a claim of the yield still held has just failed.
C15_Witness ==
  /\ Initialized /\ now > Maturity
  /\ last.op = "ClaimYield" /\ last.res = "TokenInsufficientFunds"
  /\ last.amount > 0
  /\ accts["vault"].amount = 0
  /\ accts["user_yield"].amount = BaseUnits(last.amount)
  /\ accts["yield_mint"].amount = BaseUnits(last.amount)
  /\ accts["user_principal"].kind = "token" /\ accts["user_principal"].amount = 0
  /\ accts["principal_mint"].amount = 0
  /\ accts["user_underlying"].amount = BaseUnits(InitialUnderlying)


\* A step that burns principal tokens and pays underlying out of the vault.
PrincipalRedeemed ==
  /\ accts'["principal_mint"].kind = "mint"
  /\ accts'["principal_mint"].amount < accts["principal_mint"].amount
  /\ accts'["vault"].amount < accts["vault"].amount

\* C16 as stated: no instruction burns principal tokens and pays underlying out
\* of the vault while now < maturity.
C16_AsStated == [][PrincipalRedeemed => now >= Maturity]_vars

\* C16 amended: while now <= maturity the only instruction that burns principal
\* tokens and pays underlying out of the vault is RedeemPrincipalAndYield, which
\* burns as many yield tokens with them and pays for both; RedeemMaturePrincipal
\* does so only when now > maturity.
C16_PrincipalRedemption ==
  [][ PrincipalRedeemed =>
        /\ last'.res = "Ok"
        /\ last'.op \in {"RedeemPrincipalAndYield", "RedeemMaturePrincipal"}
        /\ last'.op = "RedeemMaturePrincipal" => now > Maturity
        /\ last'.op = "RedeemMaturePrincipal" =>
             accts'["yield_mint"] = accts["yield_mint"]
        /\ last'.op = "RedeemPrincipalAndYield" =>
             LET burned == accts["principal_mint"].amount
                             - accts'["principal_mint"].amount
             IN  /\ burned = BaseUnits(last'.amount)
                 /\ accts'["yield_mint"].amount
                      = accts["yield_mint"].amount - burned
                 /\ accts'["vault"].amount = accts["vault"].amount - 2 * burned
    ]_vars

\* Principal and yield redeemed together before maturity.
C16_Witness ==
  /\ Initialized /\ now < Maturity
  /\ last.op = "RedeemPrincipalAndYield" /\ last.res = "Ok" /\ last.amount > 0
  /\ accts["user_underlying"].amount >= 2 * BaseUnits(last.amount)


\* C17: underlying moves into the vault only while now < maturity; from
\* maturity on, a deposit leaves the vault balance as it was.
C17_AsStated ==
  [][accts'["vault"].amount > accts["vault"].amount => now < Maturity]_vars


\* A result that, when it is an error, hands back the ledger it was given.
NothingOnError(r) == r.res # "Ok" => r.L = Ledger

\* C18: every instruction is all-or-nothing. In every reachable state each
\* instruction that returns an error returns the ledger untouched; a
\* DepositAndTokenize any of whose legs fails is an error with nothing
\* deposited, a RedeemPrincipalAndYield any of whose legs fails is an error with
\* nothing burned or paid, and a redemption whose vault transfer is refused
\* leaves the tokens unburned. On a run, a step whose instruction returned an
\* error changes no account and not the record.
C18_AllOrNothing ==
  /\ [](\A amount \in Amounts :
          LET p == DocumentedParams
              c == process_deposit_and_tokenize(Ledger, DepositAndTokenizeAccounts,
                     amount)
              d == process_deposit_underlying(Ledger, DepositAccounts, amount)
              tp == process_tokenize_principal(d.L, TokenizePrincipalAccounts,
                      amount)
              ty == process_tokenize_yield(tp.L, TokenizeYieldAccounts, amount)
              b == process_redeem_principal_and_yield(Ledger,
                     RedeemPrincipalAndYieldAccounts, amount)
              rp == process_redeem_principal(Ledger,
                      SubSeq(RedeemPrincipalAccounts, 1, 8), "PrincipalYield", amount)
              cy == process_claim_yield(rp.L, SubSeq(ClaimYieldAccounts, 1, 8),
                      amount)
              rm == process_redeem_mature_principal(Ledger, RedeemPrincipalAccounts,
                      amount)
              cl == process_claim_yield(Ledger, ClaimYieldAccounts, amount)
          IN  /\ NothingOnError(process_initialize_lysergic_tokenizer(Ledger,
                   InitializeTokenizerAccounts, p.underlying_mint,
                   p.principal_token_mint, p.yield_token_mint, p.expiry, p.fixed_apy))
              /\ NothingOnError(process_initialize_mints(Ledger,
                   InitializeMintsAccounts, p.underlying_mint, p.expiry))
              /\ NothingOnError(process_initialize_tokenizer_and_mints(Ledger,
                   InitializeTokenizerAndMintsAccounts, p.underlying_mint,
                   p.principal_token_mint, p.yield_token_mint, p.expiry, p.fixed_apy))
              /\ NothingOnError(d)
              /\ NothingOnError(process_tokenize_principal(Ledger,
                   TokenizePrincipalAccounts, amount))
              /\ NothingOnError(process_tokenize_yield(Ledger, TokenizeYieldAccounts,
                   amount))
              /\ NothingOnError(c) /\ NothingOnError(b)
              /\ NothingOnError(rm) /\ NothingOnError(cl)
              /\ NothingOnError(process_terminate(Ledger, TerminateAccounts))
              /\ NothingOnError(process_terminate_lysergic_tokenizer(Ledger,
                   TerminateTokenizerAccounts))
              /\ NothingOnError(process_terminate_mints(Ledger,
                   TerminateMintsAccounts))
              /\ (d.res # "Ok" \/ tp.res # "Ok" \/ ty.res # "Ok")
                   => c.res # "Ok" /\ c.L = Ledger
              /\ (rp.res # "Ok" \/ cy.res # "Ok")
                   => b.res # "Ok" /\ b.L = Ledger
              /\ rm.res = "TokenInsufficientFunds"
                   => rm.L.acc["user_principal"] = accts["user_principal"]
              /\ cl.res = "TokenInsufficientFunds"
                   => cl.L.acc["user_yield"] = accts["user_yield"])
  /\ [][last'.res \notin {"Ok", "none"} => accts' = accts /\ data' = data]_vars

\* A DepositAndTokenize refused after maturity by its tokenize leg although its
\* deposit leg alone would have gone through: nothing was deposited.
C18_Witness ==
  /\ Initialized /\ now > Maturity
  /\ last.op = "DepositAndTokenize" /\ last.res = "ExpiryDateElapsed"
  /\ last.amount > 0
  /\ process_deposit_underlying(Ledger, DepositAccounts, last.amount).res = "Ok"


\* The caller's sub-account for a token exists and holds less than the amount.
Short(account, amount) ==
  accts[account].kind = "token" /\ accts[account].amount < BaseUnits(amount)

\* C19 as stated: a mature redemption by a caller who holds too few principal
\* tokens fails with InsufficientFunds, whatever the clock.
C19_AsStated ==
  (/\ Initialized /\ last.op = "RedeemMaturePrincipal" /\ last.res # "Ok"
   /\ Short("user_principal", last.amount))
    => last.res = "InsufficientFunds"

\* C19: on an initialized record with the documented accounts, a caller whose
\* sub-account of the burned token exists and holds less than the amount gets
\* InsufficientFunds from RedeemMaturePrincipal once the clock is past maturity,
\* from ClaimYield at any clock, from RedeemPrincipalAndYield when the principal
\* is short and from it when the principal leg goes through and the yield is
\* short; before maturity RedeemMaturePrincipal fails on the clock first. In
\* all these cases, and when the sub-account does not exist, the instruction
\* fails and burns and pays nothing.
C19_BalanceCheck ==
  \A amount \in Amounts :
    LET rm == process_redeem_mature_principal(Ledger, RedeemPrincipalAccounts, amount)
        cl == process_claim_yield(Ledger, ClaimYieldAccounts, amount)
        b == process_redeem_principal_and_yield(Ledger,
               RedeemPrincipalAndYieldAccounts, amount)
        rp == process_redeem_principal(Ledger,
                SubSeq(RedeemPrincipalAccounts, 1, 8), "PrincipalYield", amount)
        lacks(account) ==
          accts[account].kind # "token" \/ accts[account].amount < BaseUnits(amount)
    IN  Initialized =>
          /\ Short("user_principal", amount) =>
               /\ rm.res = (IF now > Maturity THEN "InsufficientFunds"
                            ELSE "ExpiryDateNotElapsed")
               /\ b.res = "InsufficientFunds"
          /\ Short("user_yield", amount) =>
               /\ cl.res = "InsufficientFunds"
               /\ rp.res = "Ok" => b.res = "InsufficientFunds"
          /\ lacks("user_principal") => rm.res # "Ok" /\ rm.L = Ledger
          /\ lacks("user_yield") => cl.res # "Ok" /\ cl.L = Ledger
          /\ (lacks("user_principal") \/ lacks("user_yield"))
               => b.res # "Ok" /\ b.L = Ledger

\* A mature redemption past maturity refused for the caller's short balance of
\* principal tokens, which the caller still holds.
C19_Witness ==
  /\ Initialized /\ now > Maturity
  /\ last.op = "RedeemMaturePrincipal" /\ last.res = "InsufficientFunds"
  /\ Short("user_principal", last.amount)
  /\ accts["user_principal"].amount > 0


\* C20: RedeemPrincipalAndYield(amount) is the principal leg in the ungated
\* mode followed by ClaimYield on its result. Its outcome is the same at every
\* clock value; on success the caller's principal and yield balances and both
\* supplies fall by exactly amount, the vault falls by exactly 2 x amount and
\* the caller receives 2 x amount underlying, so the vault held at least
\* 2 x amount; on failure, a short vault included, nothing changes.
C20_RedeemPrincipalAndYield ==
  \A amount \in Amounts :
    LET b == process_redeem_principal_and_yield(Ledger,
               RedeemPrincipalAndYieldAccounts, amount)
        rp == process_redeem_principal(Ledger,
                SubSeq(RedeemPrincipalAccounts, 1, 8), "PrincipalYield", amount)
        cy == process_claim_yield(rp.L, SubSeq(ClaimYieldAccounts, 1, 8), amount)
        n == BaseUnits(amount)
        fell(account, by) == b.L.acc[account].amount = accts[account].amount - by
    IN  /\ b.res = "Ok" <=> (rp.res = "Ok" /\ cy.res = "Ok")
        /\ b.res = "Ok" => b.L = cy.L
        /\ \A t \in 0..MaxTime :
             LET at == process_redeem_principal_and_yield([Ledger EXCEPT !.now = t],
                         RedeemPrincipalAndYieldAccounts, amount)
             IN  at.res = b.res /\ at.L.acc = b.L.acc /\ at.L.st = b.L.st
        /\ b.res \notin {"ExpiryDateNotElapsed", "ExpiryDateElapsed"}
        /\ b.res = "Ok" =>
             /\ fell("user_principal", n) /\ fell("user_yield", n)
             /\ fell("principal_mint", n) /\ fell("yield_mint", n)
             /\ fell("vault", 2 * n)
             /\ b.L.acc["user_underlying"].amount
                  = accts["user_underlying"].amount + 2 * n
             /\ accts["vault"].amount >= 2 * n
             /\ b.L.st = data
        /\ b.res # "Ok" => b.L = Ledger
        /\ (Initialized /\ accts["vault"].amount < 2 * n)
             => b.res # "Ok" /\ b.L = Ledger

\* Principal and yield redeemed together after maturity, the vault paying
\* twice the amount.
C20_Witness ==
  /\ Initialized /\ now > Maturity
  /\ last.op = "RedeemPrincipalAndYield" /\ last.res = "Ok" /\ last.amount > 0
  /\ accts["user_underlying"].amount >= 2 * BaseUnits(last.amount)

\* C21 as stated: InitializeMints, which asks the base account service to
\* create the two mint accounts, rejects a base-account-service account that is
\* not that service's identity with IncorrectProgramId.
C21_AsStated ==
  LET p == DocumentedParams
      documented == process_initialize_mints(Ledger, InitializeMintsAccounts,
                      p.underlying_mint, p.expiry)
      substituted == process_initialize_mints(Ledger,
                       [InitializeMintsAccounts EXCEPT ![7] = Plain("other")],
                       p.underlying_mint, p.expiry)
  IN  documented.res = "Ok" => substituted.res = "IncorrectProgramId"

\* C22 as stated: on an initialized record, ClaimYield with an underlying-mint
\* account that is not the record's underlying_mint fails with
\* IncorrectUnderlyingMintAddress.
C22_AsStated ==
  \A amount \in Amounts :
    LET documented == process_claim_yield(Ledger, ClaimYieldAccounts, amount)
        substituted == process_claim_yield(Ledger,
                         [ClaimYieldAccounts EXCEPT ![3] = Plain("other")], amount)
    IN  (Initialized /\ documented.res = "Ok")
          => substituted.res = "IncorrectUnderlyingMintAddress"

\* The record's fields are the ones derived for its address.
WellDerived(st, key) ==
  /\ key = get_tokenizer_address(st.underlying_mint, st.expiry_date).key
  /\ st.bump = get_tokenizer_address(st.underlying_mint, st.expiry_date).bump
  /\ st.principal_token_mint = get_principal_mint_address(key)
  /\ st.yield_token_mint = get_yield_mint_address(key)
  /\ st.underlying_vault = get_associated_token_address(key, st.underlying_mint)

\* C23: a successful InitializeTokenizer, whatever accounts and parameters the
\* caller supplies, writes a record whose address is the one derived for
\* (underlying_mint, maturity), whose mints are derived from that address, whose
\* vault is the canonical sub-account of (address, underlying_mint) and whose
\* authority is the signer of the call; a supplied record, vault, underlying
\* mint or mint parameter that differs makes the call fail with the ledger
\* untouched. Every initialized record of a reachable state is so derived.
C23_RecordDerived ==
  /\ Initialized => WellDerived(data, "tokenizer")
  /\ \A accounts \in Supplied(InitializeTokenizerAccounts), p \in InitializeParams :
       LET r == process_initialize_lysergic_tokenizer(Ledger, accounts,
                  p.underlying_mint, p.principal_token_mint, p.yield_token_mint,
                  p.expiry, p.fixed_apy)
           expiry_date == to_expiry_date(p.expiry, now)
           key == get_tokenizer_address(p.underlying_mint, expiry_date).key
           differs ==
             \/ accounts[1].key # key
             \/ accounts[3].key # get_associated_token_address(key, p.underlying_mint)
             \/ accounts[4].key # p.underlying_mint
             \/ p.principal_token_mint # get_principal_mint_address(key)
             \/ p.yield_token_mint # get_yield_mint_address(key)
             \/ ~accounts[2].is_signer
       IN  /\ r.res = "Ok" =>
                /\ WellDerived(r.L.st, accounts[1].key)
                /\ r.L.st.underlying_mint = p.underlying_mint
                /\ r.L.st.expiry_date = expiry_date
                /\ r.L.st.authority = accounts[2].key /\ accounts[2].is_signer
                /\ r.L.acc[accounts[1].key].owner = ProgramId
                /\ r.L.acc[accounts[1].key].kind = "state"
           /\ (Len(accounts) = 7 /\ differs) => r.res # "Ok" /\ r.L = Ledger

\* A record just written by InitializeTokenizer, with the signer as authority.
C23_Witness ==
  /\ last.op = "InitializeTokenizer" /\ last.res = "Ok"
  /\ Initialized
  /\ data.authority = "authority" /\ data.principal_token_mint = "principal_mint"
  /\ data.underlying_vault = "vault" /\ data.expiry_date = Maturity

\* The result leaves the record as it is: its fields, its owner and its data.
RecordKept(r) ==
  /\ r.L.st = data
  /\ r.L.acc["tokenizer"].owner = accts["tokenizer"].owner
  /\ r.L.acc["tokenizer"].kind = accts["tokenizer"].kind

\* C24: the record is write-once. While the record is initialized, every
\* instruction other than a successful termination of the record, with the
\* documented accounts or with one account substituted and whether it succeeds
\* or fails, returns the record with every field, its owner and its data as
\* they were; on a run, every step from an initialized record that is not a
\* successful termination leaves the record's fields unchanged and the record
\* initialized.
C24_WriteOnce ==
  /\ [](Initialized =>
          /\ \A p \in InitializeParams :
               /\ \A a \in Supplied(InitializeTokenizerAccounts) :
                    RecordKept(process_initialize_lysergic_tokenizer(Ledger, a,
                      p.underlying_mint, p.principal_token_mint, p.yield_token_mint,
                      p.expiry, p.fixed_apy))
               /\ \A a \in Supplied(InitializeMintsAccounts) :
                    RecordKept(process_initialize_mints(Ledger, a, p.underlying_mint,
                      p.expiry))
               /\ \A a \in Supplied(InitializeTokenizerAndMintsAccounts) :
                    RecordKept(process_initialize_tokenizer_and_mints(Ledger, a,
                      p.underlying_mint, p.principal_token_mint, p.yield_token_mint,
                      p.expiry, p.fixed_apy))
          /\ \A a \in Supplied(TerminateMintsAccounts) :
               RecordKept(process_terminate_mints(Ledger, a))
          /\ \A a \in Supplied(TerminateTokenizerAccounts) :
               LET r == process_terminate_lysergic_tokenizer(Ledger, a)
               IN  r.res # "Ok" => RecordKept(r)
          /\ \A amount \in Amounts :
               /\ \A a \in Supplied(DepositAccounts) :
                    RecordKept(process_deposit_underlying(Ledger, a, amount))
               /\ \A a \in Supplied(TokenizePrincipalAccounts) :
                    RecordKept(process_tokenize_principal(Ledger, a, amount))
               /\ \A a \in Supplied(TokenizeYieldAccounts) :
                    RecordKept(process_tokenize_yield(Ledger, a, amount))
               /\ \A a \in Supplied(DepositAndTokenizeAccounts) :
                    RecordKept(process_deposit_and_tokenize(Ledger, a, amount))
               /\ \A a \in Supplied(RedeemPrincipalAccounts) :
                    RecordKept(process_redeem_mature_principal(Ledger, a, amount))
               /\ \A a \in Supplied(ClaimYieldAccounts) :
                    RecordKept(process_claim_yield(Ledger, a, amount))
               /\ \A a \in Supplied(RedeemPrincipalAndYieldAccounts) :
                    RecordKept(process_redeem_principal_and_yield(Ledger, a, amount)))
  /\ [][(/\ Initialized
         /\ ~(last'.op \in {"TerminateTokenizer", "Terminate"} /\ last'.res = "Ok"))
          => data' = data /\ Initialized']_vars

\* The mints closed after maturity with the record still standing as written.
C24_Witness ==
  /\ Initialized /\ now > Maturity
  /\ last.op = "TerminateMints" /\ last.res = "Ok"
  /\ WellDerived(data, "tokenizer") /\ data.authority = "authority"

\* C25: InitializeMints is order-independent relative to InitializeTokenizer.
\* Whether or not the record is owned by the protocol, InitializeMints for
\* (underlying_mint, maturity) refuses a principal or yield mint account exactly
\* when it is not the one derived from the record's address; and from every
\* reachable state InitializeTokenizer then InitializeMints succeeds exactly
\* when InitializeMints then InitializeTokenizer does, with the same final
\* ledger and record.
C25_OrderIndependent ==
  LET p == DocumentedParams
      tokenizer(L) ==
        process_initialize_lysergic_tokenizer(L, InitializeTokenizerAccounts,
          p.underlying_mint, p.principal_token_mint, p.yield_token_mint, p.expiry,
          p.fixed_apy)
      mints(L, a) == process_initialize_mints(L, a, p.underlying_mint, p.expiry)
      key == get_tokenizer_address(p.underlying_mint, to_expiry_date(p.expiry, now)).key
      t == tokenizer(Ledger)
      tm == mints(t.L, InitializeMintsAccounts)
      m == mints(Ledger, InitializeMintsAccounts)
      mt == tokenizer(m.L)
  IN  /\ \A a \in Supplied(InitializeMintsAccounts) :
           Len(a) = 7 =>
             (mints(Ledger, a).res
                \in {"IncorrectPrincipalMintAddress", "IncorrectYieldMintAddress"}
              <=> (\/ a[4].key # get_principal_mint_address(key)
                   \/ a[5].key # get_yield_mint_address(key)))
      /\ (t.res = "Ok" /\ tm.res = "Ok") <=> (m.res = "Ok" /\ mt.res = "Ok")
      /\ (t.res = "Ok" /\ tm.res = "Ok") => tm.L = mt.L

\* The record initialized after its mints were: the second order has run.
C25_Witness ==
  /\ last.op = "InitializeTokenizer" /\ last.res = "Ok"
  /\ Initialized /\ MintsInitialized
  /\ accts["vault"].kind = "token"

\* C26: InitializeTokenizerAndMints, on any supplied accounts and parameters,
\* succeeds exactly when InitializeTokenizer followed by InitializeMints on the
\* same accounts and parameters both succeed, and then ends in the state that
\* sequence ends in: the record written, the vault created and both mints
\* created; when either step fails it fails with the ledger untouched, so
\* nothing of the other step persists.
C26_CombinedInitialization ==
  \A a \in Supplied(InitializeTokenizerAndMintsAccounts), p \in InitializeParams :
    Len(a) = 9 =>
      LET c == process_initialize_tokenizer_and_mints(Ledger, a, p.underlying_mint,
                 p.principal_token_mint, p.yield_token_mint, p.expiry, p.fixed_apy)
          t == process_initialize_lysergic_tokenizer(Ledger,
                 << a[1], a[2], a[3], a[4], a[7], a[8], a[9] >>, p.underlying_mint,
                 p.principal_token_mint, p.yield_token_mint, p.expiry, p.fixed_apy)
          m == process_initialize_mints(t.L,
                 << a[1], a[2], a[4], a[5], a[6], a[7], a[8] >>, p.underlying_mint,
                 p.expiry)
      IN  /\ c.res = "Ok" <=> (t.res = "Ok" /\ m.res = "Ok")
          /\ c.res = "Ok" =>
               /\ c.L = m.L
               /\ c.L.acc["tokenizer"].owner = ProgramId
               /\ c.L.acc["tokenizer"].kind = "state"
               /\ WellDerived(c.L.st, "tokenizer")
               /\ c.L.acc["vault"] = TokenAccount(0)
               /\ c.L.acc["principal_mint"] = MintAccount(0)
               /\ c.L.acc["yield_mint"] = MintAccount(0)
          /\ c.res # "Ok" => c.L = Ledger
          /\ (t.res = "Ok" /\ m.res # "Ok") =>
               /\ c.res = m.res
               /\ c.L.acc["tokenizer"] = accts["tokenizer"]
               /\ c.L.acc["vault"] = accts["vault"]

\* The record, the vault and both mints made by one InitializeTokenizerAndMints.
C26_Witness ==
  /\ last.op = "InitializeTokenizerAndMints" /\ last.res = "Ok"
  /\ Initialized /\ MintsInitialized
  /\ accts["vault"] = TokenAccount(0)

\* C27 as stated: the declared size of the persisted record equals the encoded
\* size of its fields, so that a record written by InitializeTokenizer and held
\* in an account of the declared size is decoded without error.
C27_AsStated ==
  Initialized =>
    /\ LYSERGIC_TOKENIZER_STATE_SIZE = encoded_size(LysergicTokenizerState)
    /\ try_from_slice(LYSERGIC_TOKENIZER_STATE_SIZE, LysergicTokenizerState)

\* C28 as stated: when the caller's underlying sub-account does not exist,
\* ClaimYield and RedeemMaturePrincipal create it and then succeed exactly as
\* they would had the sub-account existed with balance 0.
C28_AsStated ==
  \A amount \in Amounts :
    LET existing == Put(Ledger, "user_underlying", TokenAccount(0))
        cw == process_claim_yield(existing, ClaimYieldAccounts, amount)
        c == process_claim_yield(Ledger, ClaimYieldAccounts, amount)
        rw == process_redeem_mature_principal(existing, RedeemPrincipalAccounts,
                amount)
        r == process_redeem_mature_principal(Ledger, RedeemPrincipalAccounts, amount)
    IN  accts["user_underlying"].kind = "empty" =>
          /\ cw.res = "Ok" => c.res = "Ok" /\ c.L = cw.L
          /\ rw.res = "Ok" => r.res = "Ok" /\ r.L = rw.L

\* The result is an error and hands back the ledger it was given.
Refused(r) == r.res # "Ok" /\ r.L = Ledger

\* C29: a successful TerminateTokenizer leaves the record not owned by the
\* protocol; and whenever the record is not owned by the protocol, every
\* instruction other than an initialization that names the record, with the
\* documented accounts or one of them substituted and any amount, fails and
\* returns the ledger untouched. On a run, every such step from a record that
\* is not owned leaves every account and balance as it was.
C29_AfterTermination ==
  /\ []((last.op = "TerminateTokenizer" /\ last.res = "Ok") => ~Initialized)
  /\ [](accts["tokenizer"].owner # ProgramId =>
          /\ \A amount \in Amounts :
               /\ \A a \in Supplied(DepositAccounts) :
                    OnRecord(a) => Refused(process_deposit_underlying(Ledger, a, amount))
               /\ \A a \in Supplied(TokenizePrincipalAccounts) :
                    OnRecord(a) => Refused(process_tokenize_principal(Ledger, a, amount))
               /\ \A a \in Supplied(TokenizeYieldAccounts) :
                    OnRecord(a) => Refused(process_tokenize_yield(Ledger, a, amount))
               /\ \A a \in Supplied(DepositAndTokenizeAccounts) :
                    OnRecord(a) => Refused(process_deposit_and_tokenize(Ledger, a, amount))
               /\ \A a \in Supplied(RedeemPrincipalAccounts) :
                    OnRecord(a) =>
                      Refused(process_redeem_mature_principal(Ledger, a, amount))
               /\ \A a \in Supplied(ClaimYieldAccounts) :
                    OnRecord(a) => Refused(process_claim_yield(Ledger, a, amount))
               /\ \A a \in Supplied(RedeemPrincipalAndYieldAccounts) :
                    OnRecord(a) =>
                      Refused(process_redeem_principal_and_yield(Ledger, a, amount))
          /\ \A a \in Supplied(TerminateAccounts) :
               OnRecord(a) => Refused(process_terminate(Ledger, a))
          /\ \A a \in Supplied(TerminateTokenizerAccounts) :
               OnRecord(a) => Refused(process_terminate_lysergic_tokenizer(Ledger, a))
          /\ \A a \in Supplied(TerminateMintsAccounts) :
               OnRecord(a) => Refused(process_terminate_mints(Ledger, a)))
  /\ [][(accts["tokenizer"].owner # ProgramId
         /\ last'.op \notin InitializationOps \cup {"none"})
          => last'.res # "Ok" /\ accts' = accts /\ data' = data]_vars

\* A claim refused on a terminated record: the vault the initialization made is
\* still there, the record is not.
C29_Witness ==
  /\ accts["tokenizer"].owner # ProgramId /\ accts["vault"].kind = "token"
  /\ last.op = "ClaimYield" /\ last.res = "TokenizerNotInitialized"

\* C30 as stated: TokenizePrincipal and TokenizeYield cannot mint tokens to a
\* caller who has not deposited the corresponding underlying. A caller without
\* an underlying sub-account has never deposited (no instruction closes a
\* sub-account), so the amounts minted so far, the supplies, must be 0.
C30_AsStated ==
  accts["user_underlying"].kind = "empty" =>
    /\ accts["vault"].amount = 0
    /\ accts["principal_mint"].amount = 0 /\ accts["user_principal"].amount = 0
    /\ accts["yield_mint"].amount = 0 /\ accts["user_yield"].amount = 0

\* The underlying held by the vault and by the caller's sub-account together.
UnderlyingHeld(acc) == acc["vault"].amount + acc["user_underlying"].amount

\* C31: conservation. Every step leaves the underlying held by the vault and
\* the callers together, and the underlying mint's supply, as they were. The
\* vault balance changes only by +amount in a successful DepositUnderlying or
\* DepositAndTokenize, by -amount in a successful RedeemMaturePrincipal or
\* ClaimYield and by -2 x amount in a successful RedeemPrincipalAndYield (one
\* redemption and one claim). The principal (yield) supply and the caller's
\* principal (yield) balance change only by +amount in a successful
\* TokenizePrincipal (TokenizeYield) or DepositAndTokenize and by -amount in a
\* successful principal redemption (yield claim). Amounts are in base units.
C31_Conservation ==
  [][LET n == BaseUnits(last'.amount)
         ok == last'.res = "Ok"
         op == last'.op
         delta(k) == accts'[k].amount - accts[k].amount
         dv == CASE ok /\ op \in {"DepositUnderlying", "DepositAndTokenize"} -> n
                 [] ok /\ op \in {"RedeemMaturePrincipal", "ClaimYield"} -> 0 - n
                 [] ok /\ op = "RedeemPrincipalAndYield" -> 0 - 2 * n
                 [] OTHER -> 0
         dp == CASE ok /\ op \in {"TokenizePrincipal", "DepositAndTokenize"} -> n
                 [] ok /\ op \in {"RedeemMaturePrincipal", "RedeemPrincipalAndYield"}
                      -> 0 - n
                 [] OTHER -> 0
         dy == CASE ok /\ op \in {"TokenizeYield", "DepositAndTokenize"} -> n
                 [] ok /\ op \in {"ClaimYield", "RedeemPrincipalAndYield"} -> 0 - n
                 [] OTHER -> 0
     IN  /\ UnderlyingHeld(accts') = UnderlyingHeld(accts)
         /\ delta("underlying_mint") = 0
         /\ delta("vault") = dv
         /\ delta("user_underlying") = 0 - dv
         /\ delta("principal_mint") = dp /\ delta("user_principal") = dp
         /\ delta("yield_mint") = dy /\ delta("user_yield") = dy
    ]_vars

\* Underlying deposited and partly paid back by a mature redemption: the vault
\* and the caller together hold what the caller started with.
C31_Witness ==
  /\ last.op = "RedeemMaturePrincipal" /\ last.res = "Ok" /\ last.amount > 0
  /\ accts["vault"].amount > 0
  /\ UnderlyingHeld(accts) = BaseUnits(InitialUnderlying)

\* C32: gate partition, in every reachable state. For every expiry date a record may hold and every clock
\* reading the tokenization gate passes exactly when the post-maturity gate
\* fails; and on an initialized record with the documented accounts, at every
\* clock reading and expiry date, TokenizePrincipal and TokenizeYield are
\* refused with ExpiryDateElapsed exactly when RedeemMaturePrincipal,
\* TerminateTokenizer and TerminateMints are not refused with
\* ExpiryDateNotElapsed: at no clock value are both legal, and at none neither.
C32_GatePartition ==
  [](\A t \in 0..MaxTime, e \in 0..MaxTime :
        LET L == [Ledger EXCEPT !.now = t, !.st.expiry_date = e]
            closed(r) == r.res = "ExpiryDateElapsed"
            early(r) == r.res = "ExpiryDateNotElapsed"
            tp == process_tokenize_principal(L, TokenizePrincipalAccounts, 1)
            ty == process_tokenize_yield(L, TokenizeYieldAccounts, 1)
            rm == process_redeem_mature_principal(L, RedeemPrincipalAccounts, 1)
            tt == process_terminate_lysergic_tokenizer(L, TerminateTokenizerAccounts)
            tm == process_terminate_mints(L, TerminateMintsAccounts)
        IN  /\ ~expiry_date_elapsed(L.st, t) <=> expiry_date_not_elapsed(L.st, t)
            /\ Initialized =>
                 /\ closed(tp) <=> closed(ty)
                 /\ early(rm) <=> early(tt)
                 /\ early(rm) <=> early(tm)
                 /\ ~closed(tp) <=> early(rm)
                 /\ closed(tp) <=> t > e)

\* A tokenization that passed its gate at the maturity instant, where a mature
\* redemption is refused as early.
C32_Witness ==
  /\ Initialized /\ now = Maturity
  /\ last.op = "TokenizeYield" /\ last.res = "Ok"
  /\ process_redeem_mature_principal(Ledger, RedeemPrincipalAccounts, 1).res
       = "ExpiryDateNotElapsed"

=============================================================================
